---- MODULE Spec2Model ----
(***************************************************************************)
(* Model of the static extraction / annotation / graph derivation pipeline *)
(* (static_parser.py, semantic_inference.py, graph_builder.py, driven by   *)
(* run_analysis in app.py).                                                *)
(*                                                                         *)
(* Strings are sequences of tokens.  A token is a one-character string,    *)
(* except inside generated descriptions, where a fixed template fragment   *)
(* of the source is kept as one token.  A file's content is a sequence of  *)
(* lexical statements (what ast.parse and the regular expressions of the   *)
(* extractors recognise in the text); an absent content has present =      *)
(* FALSE and the empty string has no statement at all.                     *)
(***************************************************************************)
EXTENDS Integers, Sequences, FiniteSets, TLC

\* ------------------------------------------------------------------ bounds
MaxFiles == 2
MaxCapFiles == 42
MaxModFiles == 2
MaxFuncFiles == 1

\* ------------------------------------------------- program constants
ModuleDisplayCap == 40
RouteDisplayCap == 30
ComponentDisplayCap == 30
DocstringCap == 200
LabelMaxLen == 25

\* ------------------------------------------------------------ strings
Min(a, b) == IF a < b THEN a ELSE b

Range(s) == {s[k] : k \in 1..Len(s)}

Take(s, n) == SubSeq(s, 1, Min(n, Len(s)))

Drop(s, n) == SubSeq(s, n + 1, Len(s))

\* a list given by a function constructor, as a tuple
Tuple(s) == s \o <<>>

Reverse(s) == Tuple([k \in 1..Len(s) |-> s[Len(s) + 1 - k]])

UpperChars == <<"A","B","C","D","E","F","G","H","I","J","K","L","M",
                "N","O","P","Q","R","S","T","U","V","W","X","Y","Z">>
LowerChars == <<"a","b","c","d","e","f","g","h","i","j","k","l","m",
                "n","o","p","q","r","s","t","u","v","w","x","y","z">>

IsUpperChar(c) == \E k \in 1..26 : UpperChars[k] = c

IsLowerChar(c) == \E k \in 1..26 : LowerChars[k] = c

LowerChar(c) == IF IsUpperChar(c)
                THEN LowerChars[CHOOSE k \in 1..26 : UpperChars[k] = c]
                ELSE c

UpperChar(c) == IF IsLowerChar(c)
                THEN UpperChars[CHOOSE k \in 1..26 : LowerChars[k] = c]
                ELSE c

\* str.lower()
Lower(s) == Tuple([k \in 1..Len(s) |-> LowerChar(s[k])])

\* str.upper()
Upper(s) == Tuple([k \in 1..Len(s) |-> UpperChar(s[k])])

\* str.replace(c, d) for one-character c and d
Replace(s, c, d) == Tuple([k \in 1..Len(s) |-> IF s[k] = c THEN d ELSE s[k]])

\* str.startswith
StartsWith(s, p) == Len(p) <= Len(s) /\ SubSeq(s, 1, Len(p)) = p

\* str.endswith
EndsWith(s, p) == Len(p) <= Len(s) /\ SubSeq(s, Len(s) - Len(p) + 1, Len(s)) = p

\* "sub in s" on strings
Contains(s, sub) ==
    \E k \in 0..(Len(s) - Len(sub)) : SubSeq(s, k + 1, k + Len(sub)) = sub

HasChar(s, c) == \E k \in 1..Len(s) : s[k] = c

FirstIndex(s, c) == CHOOSE k \in 1..Len(s) : s[k] = c /\ \A j \in 1..(k - 1) : s[j] # c

LastIndex(s, c) == CHOOSE k \in 1..Len(s) : s[k] = c /\ \A j \in (k + 1)..Len(s) : s[j] # c

\* s.split(c)[0]
SplitFirst(s, c) == IF HasChar(s, c) THEN SubSeq(s, 1, FirstIndex(s, c) - 1) ELSE s

\* s.split(c)[-1], s.rsplit(c, 1)[-1]
SplitLast(s, c) == IF HasChar(s, c) THEN SubSeq(s, LastIndex(s, c) + 1, Len(s)) ELSE s

\* "sep".join(list)
RECURSIVE Join(_, _)
Join(list, sep) ==
    IF list = <<>> THEN <<>>
    ELSE IF Len(list) = 1 THEN list[1]
    ELSE list[1] \o sep \o Join(Tail(list), sep)

\* a finite set of numbers as an ascending list
SortedSeq(S) ==
    Tuple([n \in 1..Cardinality(S) |-> CHOOSE x \in S : Cardinality({y \in S : y < x}) = n - 1])

\* [s[k] for k in ascending order if k in idx]
Pick(s, idx) ==
    LET order == SortedSeq(idx)
        t == Tuple(s)
    IN Tuple([n \in 1..Len(order) |-> t[order[n]]])

\* first occurrences of a list, in order
Dedup(s) == Pick(s, {k \in 1..Len(s) : \A j \in 1..(k - 1) : s[j] # s[k]})

NoDuplicates(s) == \A j, k \in 1..Len(s) : j # k => s[j] # s[k]

\* [x for x in s if x in keep]
SelectSeqBy(s, keep) == Pick(s, {k \in 1..Len(s) : s[k] \in keep})

\* Iteration orders of a Python set of strings.  The order depends on the
\* process's string hash seed; three of the orders a build can produce.
HashSeeds == {0, 1, 2}

\* list(set(xs)) under hash seed h
ListOfSet(xs, h) ==
    LET d == Dedup(xs)
    IN IF Len(d) <= 1 THEN d
       ELSE IF h = 0 THEN d
       ELSE IF h = 1 THEN Reverse(d)
       ELSE Tail(d) \o <<d[1]>>

\* decimal digits of a number below 100, used to name generated files
DigitChars == <<"0","1","2","3","4","5","6","7","8","9">>

Digits(n) == IF n < 10 THEN <<DigitChars[n + 1]>>
             ELSE <<DigitChars[(n \div 10) + 1], DigitChars[(n % 10) + 1]>>

RECURSIVE FlattenFrom(_, _)
FlattenFrom(t, k) == IF k > Len(t) THEN <<>> ELSE t[k] \o FlattenFrom(t, k + 1)

\* concatenation of a list of lists
Flatten(ss) == FlattenFrom(Tuple(ss), 1)

\* indices k >= from, ascending, of the statements whose kind is in kinds
IndicesOf(stmts, kinds, from) ==
    SortedSeq({k \in from..Len(stmts) : stmts[k].kind \in kinds})

\* ------------------------------------------------------- string literals
Dot == <<".">>
ExtPy == <<".","p","y">>
ExtJs == <<".","j","s">>
ExtTs == <<".","t","s">>
ExtTsx == <<".","t","s","x">>
ExtJsx == <<".","j","s","x">>
ExtJava == <<".","j","a","v","a">>
ExtGo == <<".","g","o">>
ExtCs == <<".","c","s">>
ExtPhp == <<".","p","h","p">>
ExtCpp == <<".","c","p","p">>

LangPython == <<"Python">>
LangJavaScript == <<"JavaScript">>
LangTypeScript == <<"TypeScript">>

\* graph_builder._path_to_module: the extensions tried, in order
ModuleExtensions == <<ExtPy, ExtJs, ExtTs, ExtTsx, ExtJsx, ExtJava, ExtGo, ExtCs, ExtPhp, ExtCpp>>

\* static_parser.analyze_all_sources: source_extensions
source_extensions == {ExtPy, ExtJs, ExtTs, ExtTsx, ExtJsx, ExtJava, ExtCpp, ExtGo, ExtCs, ExtPhp}

\* ---------------------------------------------------------- records
FuncRec(keys, name, decorators, is_async, line, description) ==
    [keys |-> keys, name |-> name, decorators |-> decorators,
     is_async |-> is_async, line |-> line, description |-> description]

ClassRec(keys, name, bases, decorators, line, extends) ==
    [keys |-> keys, name |-> name, bases |-> bases, decorators |-> decorators,
     line |-> line, extends |-> extends]

RouteRec(keys, method, path, function, decorator, line) ==
    [keys |-> keys, method |-> method, path |-> path, function |-> function,
     decorator |-> decorator, line |-> line]

\* dict.get(key, default) on a record that lists its keys
Get(r, key, default) == IF key \in r.keys THEN r[key] ELSE default

\* the result dict of an extractor before anything is collected
EmptyAnalysis(keys, file_path, language) ==
    [keys |-> keys, file_path |-> file_path, language |-> language,
     classes |-> <<>>, functions |-> <<>>, components |-> <<>>,
     imports |-> <<>>, routes |-> <<>>, decorators |-> <<>>, exports |-> <<>>,
     hooks |-> <<>>, react_hooks |-> <<>>, semantic_description |-> <<>>]

CoreKeys == {"file_path", "language", "classes", "functions", "components", "imports", "routes"}

\* ------------------------------------------------ Python extractor
\* static_parser._get_decorator_string: dotted name of an attribute chain
_get_decorator_string(parts) == Join(parts, Dot)

RECURSIVE AstDump(_)
\* ast.dump of a Name / Attribute chain
AstDump(parts) ==
    IF Len(parts) <= 1
    THEN <<"Name(id='">> \o Flatten(parts) \o <<"', ctx=Load())">>
    ELSE <<"Attribute(value=">> \o AstDump(SubSeq(parts, 1, Len(parts) - 1))
         \o <<", attr='">> \o parts[Len(parts)] \o <<"', ctx=Load())">>

\* decorator strings of a function definition (lines 63-74)
RECURSIVE FunctionDecorators(_)
FunctionDecorators(decs) ==
    IF decs = <<>> THEN <<>>
    ELSE LET d == decs[1]
             rest == FunctionDecorators(Tail(decs))
         IN IF d.form \in {"name", "call_name"} THEN <<d.parts[1]>> \o rest
            ELSE IF d.form \in {"attr", "call_attr"}
                 THEN <<_get_decorator_string(d.parts)>> \o rest
            ELSE rest

\* decorator strings of a class definition (lines 42-52)
RECURSIVE ClassDecorators(_)
ClassDecorators(decs) ==
    IF decs = <<>> THEN <<>>
    ELSE LET d == decs[1]
             rest == ClassDecorators(Tail(decs))
         IN IF d.form \in {"name", "call_name"} THEN <<d.parts[1]>> \o rest
            ELSE IF d.form \in {"attr", "call_attr"} THEN <<AstDump(d.parts)>> \o rest
            ELSE rest

\* base names of a class definition (lines 36-41)
RECURSIVE ClassBases(_)
ClassBases(bases) ==
    IF bases = <<>> THEN <<>>
    ELSE LET b == bases[1]
             rest == ClassBases(Tail(bases))
         IN IF b.form = "name" THEN <<b.parts[1]>> \o rest
            ELSE IF b.form = "attr" THEN <<AstDump(b.parts)>> \o rest
            ELSE rest

\* the route-method markers of line 94
RouteMarkers == {<<".","g","e","t">>, <<".","p","o","s","t">>, <<".","p","u","t">>,
                 <<".","d","e","l","e","t","e">>, <<".","p","a","t","c","h">>,
                 <<".","r","o","u","t","e">>}

IsRouteDecorator(dec_str) == \E m \in RouteMarkers : Contains(Lower(dec_str), m)

\* routes of one function definition (lines 92-99)
RECURSIVE PythonRoutesOf(_, _, _)
PythonRoutesOf(name, decorators, line) ==
    IF decorators = <<>> THEN <<>>
    ELSE (IF IsRouteDecorator(decorators[1])
          THEN <<RouteRec({"function", "decorator", "line"}, <<>>, <<>>, name, decorators[1], line)>>
          ELSE <<>>)
         \o PythonRoutesOf(name, Tail(decorators), line)

\* ast.parse raises SyntaxError
SyntaxInvalid(stmts) == \E k \in 1..Len(stmts) : stmts[k].kind = "bad"

\* the walk over the syntax tree (lines 33-111)
PythonWalk(stmts, file_path, h) ==
    LET result == EmptyAnalysis(CoreKeys \cup {"decorators"}, file_path, LangPython)
        ci == IndicesOf(stmts, {"class"}, 1)
        fi == IndicesOf(stmts, {"def"}, 1)
        ii == IndicesOf(stmts, {"import", "from"}, 1)
        fdecs(k) == FunctionDecorators(stmts[k].decs)
        allDecs == Flatten([n \in 1..Len(fi) |-> fdecs(fi[n])])
    IN [result EXCEPT
          !.classes = Tuple([n \in 1..Len(ci) |->
              ClassRec({"name", "bases", "decorators", "line"}, stmts[ci[n]].name,
                       ClassBases(stmts[ci[n]].bases), ClassDecorators(stmts[ci[n]].decs),
                       ci[n], <<>>)]),
          !.functions = Tuple([n \in 1..Len(fi) |->
              FuncRec({"name", "decorators", "is_async", "line", "description"},
                      stmts[fi[n]].name, fdecs(fi[n]), stmts[fi[n]].is_async, fi[n],
                      Take(stmts[fi[n]].doc, DocstringCap))]),
          !.routes = Flatten([n \in 1..Len(fi) |->
              PythonRoutesOf(stmts[fi[n]].name, fdecs(fi[n]), fi[n])]),
          !.imports = Tuple([n \in 1..Len(ii) |->
              IF stmts[ii[n]].kind = "import" THEN stmts[ii[n]].name
              ELSE stmts[ii[n]].name \o Dot \o stmts[ii[n]].arg]),
          !.decorators = ListOfSet(allDecs, h)]

\* parse_python without the except SyntaxError: what was read is kept
parse_python_NoExcept(stmts, file_path, h) == PythonWalk(stmts, file_path, h)

parse_python(stmts, file_path, h) ==
    IF SyntaxInvalid(stmts)
    THEN EmptyAnalysis(CoreKeys \cup {"decorators"}, file_path, LangPython)
    ELSE PythonWalk(stmts, file_path, h)

\* ------------------------------------- JavaScript / TypeScript extractor
\* Statement kinds and the patterns of parse_javascript that match them:
\*   import_default  import X from 'arg'           import patterns 1 and 4
\*   import_named    import {x} from 'arg'         import pattern 1
\*   import_mixed    import X, {y} from 'arg'      import pattern 4
\*   import_bare     import 'arg'                  import pattern 2
\*   require         const x = require('arg')      import pattern 3
\*   function        [async] function name(        function patterns 1 and 4
\*   arrow           const name = [async] (..) =>  function pattern 2
\*   funcexpr        const name = [async] function function pattern 3
\*   generator       function* name(               function pattern 4
\*   class           class name [extends arg]
\*   module_exports  module.exports = name
\*   route           name.arg('arg2', ...)
\*   hookcall        name(                         (a call, TSX/JSX hook pattern)
\*   hoc             const name = React.memo(      (TSX/JSX)
ImportPatterns == <<{"import_default", "import_named"}, {"import_bare"}, {"require"},
                    {"import_default", "import_mixed"}>>

FuncPatterns == <<{"function"}, {"arrow"}, {"funcexpr"}, {"function", "generator"}>>

\* the values of one field of the statements a pattern matches, in text order
MatchesOf(stmts, kinds, field) ==
    LET idx == IndicesOf(stmts, kinds, 1)
    IN Tuple([n \in 1..Len(idx) |-> stmts[idx[n]][field]])

\* the matches of a list of patterns, pattern after pattern
MatchesOfAll(stmts, patterns, field) ==
    Flatten([p \in 1..Len(patterns) |-> MatchesOf(stmts, patterns[p], field)])

\* jsdoc_map.get(name, ""): the comment of the last documented function/const
\* statement of that name (lines 165-172)
JsDocOf(stmts, name) ==
    LET idx == IndicesOf(stmts, {"function", "arrow", "funcexpr", "require", "hoc"}, 1)
        docd == {k \in Range(idx) : stmts[k].name = name /\ stmts[k].doc # <<>>}
    IN IF docd = {} THEN <<>>
       ELSE stmts[CHOOSE k \in docd : \A j \in docd : j <= k].doc

RouteObjects == {<<"a","p","p">>, <<"r","o","u","t","e","r">>, <<"s","e","r","v","e","r">>}

RouteMethods == {<<"g","e","t">>, <<"p","o","s","t">>, <<"p","u","t">>,
                 <<"d","e","l","e","t","e">>, <<"p","a","t","c","h">>,
                 <<"u","s","e">>, <<"a","l","l">>}

\* route_pattern of line 205 matches the statement
IsRouteCall(s) ==
    /\ s.kind = "route"
    /\ \E o \in RouteObjects : EndsWith(s.name, o)
    /\ s.arg \in RouteMethods
    /\ s.arg2 # <<>>

RECURSIVE JsRoutes(_)
JsRoutes(stmts) ==
    IF stmts = <<>> THEN <<>>
    ELSE (IF IsRouteCall(stmts[1])
          THEN <<RouteRec({"method", "path"}, Upper(stmts[1].arg), stmts[1].arg2, <<>>, <<>>, 0)>>
          ELSE <<>>)
         \o JsRoutes(Tail(stmts))

RECURSIVE ExportedNames(_)
\* names matched by the export patterns (lines 194-201)
ExportedNames(stmts) ==
    IF stmts = <<>> THEN <<>>
    ELSE (IF \/ stmts[1].kind = "module_exports"
             \/ (stmts[1].exported /\ stmts[1].kind \in {"function", "arrow", "funcexpr", "class", "hoc"})
          THEN <<stmts[1].name>> ELSE <<>>)
         \o ExportedNames(Tail(stmts))

\* parse_javascript without the set of names seen: every match is appended
parse_javascript_NoSeen(stmts, file_path, h) ==
    LET lang == IF EndsWith(file_path, ExtTs) \/ EndsWith(file_path, ExtTsx)
                THEN LangTypeScript ELSE LangJavaScript
        result == EmptyAnalysis(CoreKeys \cup {"exports"}, file_path, lang)
        names == MatchesOfAll(stmts, FuncPatterns, "name")
        ci == IndicesOf(stmts, {"class"}, 1)
    IN [result EXCEPT
         !.imports = ListOfSet(MatchesOfAll(stmts, ImportPatterns, "arg"), h),
         !.functions = [n \in 1..Len(names) |->
             FuncRec({"name", "description"}, names[n], <<>>, FALSE, 0, JsDocOf(stmts, names[n]))],
         !.classes = [n \in 1..Len(ci) |->
             ClassRec(IF stmts[ci[n]].arg # <<>> THEN {"name", "extends"} ELSE {"name"},
                      stmts[ci[n]].name, <<>>, <<>>, 0, stmts[ci[n]].arg)],
         !.exports = ListOfSet(ExportedNames(stmts), h),
         !.routes = JsRoutes(stmts)]

parse_javascript(stmts, file_path, h) ==
    LET lang == IF EndsWith(file_path, ExtTs) \/ EndsWith(file_path, ExtTsx)
                THEN LangTypeScript ELSE LangJavaScript
        result == EmptyAnalysis(CoreKeys \cup {"exports"}, file_path, lang)
        names == Dedup(MatchesOfAll(stmts, FuncPatterns, "name"))
        ci == IndicesOf(stmts, {"class"}, 1)
    IN [result EXCEPT
         !.imports = ListOfSet(MatchesOfAll(stmts, ImportPatterns, "arg"), h),
         !.functions = [n \in 1..Len(names) |->
             FuncRec({"name", "description"}, names[n], <<>>, FALSE, 0, JsDocOf(stmts, names[n]))],
         !.classes = [n \in 1..Len(ci) |->
             ClassRec(IF stmts[ci[n]].arg # <<>> THEN {"name", "extends"} ELSE {"name"},
                      stmts[ci[n]].name, <<>>, <<>>, 0, stmts[ci[n]].arg)],
         !.exports = ListOfSet(ExportedNames(stmts), h),
         !.routes = JsRoutes(stmts)]

\* ------------------------------------------------------ TSX / JSX extractor
\* [A-Z]\w+
IsCapitalized(name) == Len(name) >= 2 /\ IsUpperChar(name[1])

\* use[A-Z]\w+
IsHookName(name) ==
    Len(name) >= 5 /\ SubSeq(name, 1, 3) = <<"u","s","e">> /\ IsUpperChar(name[4])

NameTest(test, name) == IF test = "capitalized" THEN IsCapitalized(name) ELSE IsHookName(name)

RECURSIVE SelectNames(_, _, _)
\* names of the statements of the given kinds that pass the test, in text order
SelectNames(stmts, kinds, test) ==
    IF stmts = <<>> THEN <<>>
    ELSE (IF stmts[1].kind \in kinds /\ NameTest(test, stmts[1].name)
          THEN <<stmts[1].name>> ELSE <<>>)
         \o SelectNames(Tail(stmts), kinds, test)

KnownHooks == {<<"u","s","e","S","t","a","t","e">>, <<"u","s","e","E","f","f","e","c","t">>,
               <<"u","s","e","C","o","n","t","e","x","t">>, <<"u","s","e","R","e","d","u","c","e","r">>,
               <<"u","s","e","C","a","l","l","b","a","c","k">>, <<"u","s","e","M","e","m","o">>,
               <<"u","s","e","R","e","f">>, <<"u","s","e","L","a","y","o","u","t","E","f","f","e","c","t">>,
               <<"u","s","e","I","m","p","e","r","a","t","i","v","e","H","a","n","d","l","e">>,
               <<"u","s","e","D","e","b","u","g","V","a","l","u","e">>, <<"u","s","e","I","d">>,
               <<"u","s","e","T","r","a","n","s","i","t","i","o","n">>,
               <<"u","s","e","D","e","f","e","r","r","e","d","V","a","l","u","e">>,
               <<"u","s","e","S","y","n","c","E","x","t","e","r","n","a","l","S","t","o","r","e">>}

parse_react(stmts, file_path, h) ==
    LET base == parse_javascript(stmts, file_path, h)
        components == SelectNames(stmts, {"function"}, "capitalized")
                      \o SelectNames(stmts, {"arrow"}, "capitalized")
                      \o SelectNames(stmts, {"hoc"}, "capitalized")
        hooks == ListOfSet(SelectNames(stmts, {"hookcall", "function"}, "hook"), h)
    IN [base EXCEPT
         !.keys = @ \cup {"hooks", "react_hooks"},
         !.components = ListOfSet(components, h),
         !.hooks = hooks,
         !.react_hooks = SelectSeqBy(hooks, KnownHooks)]

\* ------------------------------------------------- generic extractor
IF_KW == <<"i","f">>
FOR_KW == <<"f","o","r">>
WHILE_KW == <<"w","h","i","l","e">>
SWITCH_KW == <<"s","w","i","t","c","h">>
CATCH_KW == <<"c","a","t","c","h">>
RETURN_KW == <<"r","e","t","u","r","n">>

\* Statement kinds of the generic extractor: class, function (a method or
\* function definition in the syntax of the language), ctrl (a control-flow
\* keyword followed by a parenthesis, name = the keyword), import.
GenericStoplist == {IF_KW, FOR_KW, WHILE_KW, SWITCH_KW, CATCH_KW, RETURN_KW}

\* [x for x in s if x not in drop]
RemoveAll(s, drop) == Pick(s, {k \in 1..Len(s) : s[k] \notin drop})

_parse_generic(stmts, file_path) ==
    LET ext == Lower(SplitLast(file_path, "."))
        language == IF ext = Tail(ExtJava) THEN <<"Java">>
                    ELSE IF ext = Tail(ExtCpp) THEN <<"C++">>
                    ELSE IF ext = Tail(ExtGo) THEN <<"Go">>
                    ELSE IF ext = Tail(ExtCs) THEN <<"C#">>
                    ELSE IF ext = Tail(ExtPhp) THEN <<"PHP">>
                    ELSE Upper(ext)
        result == EmptyAnalysis(CoreKeys, file_path, language)
        ci == IndicesOf(stmts, {"class"}, 1)
        funcKinds == IF ext \in {Tail(ExtGo), Tail(ExtPhp)} THEN {"function"}
                     ELSE {"function", "ctrl"}
        names == Dedup(RemoveAll(MatchesOf(stmts, funcKinds, "name"), GenericStoplist))
    IN [result EXCEPT
         !.classes = [n \in 1..Len(ci) |->
             ClassRec({"name"}, stmts[ci[n]].name, <<>>, <<>>, 0, <<>>)],
         !.functions = [n \in 1..Len(names) |->
             FuncRec({"name"}, names[n], <<>>, FALSE, 0, <<>>)],
         !.imports = IF ext \in {Tail(ExtJava), Tail(ExtGo), Tail(ExtCs), Tail(ExtPhp)}
                     THEN MatchesOf(stmts, {"import"}, "name") ELSE <<>>]

\* ------------------------------------------------------------ dispatcher
NoAnalysis == [none |-> TRUE, rec |-> EmptyAnalysis({}, <<>>, <<>>)]

Some(rec) == [none |-> FALSE, rec |-> rec]

\* parse_source_file falling back to the generic extractor for any other extension
parse_source_file_Fallback(file_path, present, stmts, h) ==
    IF ~present THEN NoAnalysis
    ELSE IF EndsWith(file_path, ExtPy) THEN Some(parse_python(stmts, file_path, h))
    ELSE IF EndsWith(file_path, ExtTsx) \/ EndsWith(file_path, ExtJsx)
         THEN Some(parse_react(stmts, file_path, h))
    ELSE IF EndsWith(file_path, ExtJs) \/ EndsWith(file_path, ExtTs)
         THEN Some(parse_javascript(stmts, file_path, h))
    ELSE Some(_parse_generic(stmts, file_path))

\* f = [path, present, stmts]; present = FALSE is content None
parse_source_file(file_path, present, stmts, h) ==
    IF ~present THEN NoAnalysis
    ELSE IF EndsWith(file_path, ExtPy) THEN Some(parse_python(stmts, file_path, h))
    ELSE IF EndsWith(file_path, ExtTsx) \/ EndsWith(file_path, ExtJsx)
         THEN Some(parse_react(stmts, file_path, h))
    ELSE IF EndsWith(file_path, ExtJs) \/ EndsWith(file_path, ExtTs)
         THEN Some(parse_javascript(stmts, file_path, h))
    ELSE IF \E e \in {ExtJava, ExtCpp, ExtGo, ExtCs, ExtPhp} : EndsWith(file_path, e)
         THEN Some(_parse_generic(stmts, file_path))
    ELSE NoAnalysis

\* the extension analyze_all_sources computes for a path (lines 355-357)
SourceExt(path) ==
    IF HasChar(SplitLast(path, "/"), ".") THEN Dot \o Lower(SplitLast(path, ".")) ELSE <<>>

\* HasContent testing "is not None" instead of truthiness
HasContent_NotNone(f) == f.present

\* f.get("content") is truthy
HasContent(f) == f.present /\ f.stmts # <<>>

\* one iteration of the loop of analyze_all_sources: the records appended for f
AnalyzeOne(f, h) ==
    IF SourceExt(f.path) \in source_extensions /\ HasContent(f)
    THEN LET parsed == parse_source_file(f.path, f.present, f.stmts, h)
         IN IF ~parsed.none THEN <<parsed.rec>> ELSE <<>>
    ELSE <<>>

analyze_all_sources(fs, h) == Flatten([k \in 1..Len(fs) |-> AnalyzeOne(fs[k], h)])

\* ------------------------------------------------- semantic annotator
ScriptLanguages == {LangJavaScript, LangTypeScript}

UseState == <<"u","s","e","S","t","a","t","e">>
UseEffect == <<"u","s","e","E","f","f","e","c","t">>
HttpMarkers == {<<"a","x","i","o","s">>, <<"f","e","t","c","h">>}
MapMarker == <<"m","a","p">>
ApiDecoratorMarkers == {<<"r","o","u","t","e">>, <<"g","e","t">>, <<"p","o","s","t">>, <<"p","u","t">>, <<"d","e","l","e","t","e">>}
PurposeDecoratorMarkers == {<<"r","o","u","t","e">>, <<"g","e","t">>, <<"p","o","s","t">>, <<"p","u","t">>, <<"d","e","l","e","t","e">>, <<"p","a","t","c","h">>}
Space == <<" ">>

\* "marker in str(list_of_strings)" : the marker is letters only, so it
\* occurs in the repr of the list iff it occurs in one of the strings
InReprOfList(marker, list, lower) ==
    \E k \in 1..Len(list) : Contains(IF lower THEN Lower(list[k]) ELSE list[k], marker)

\* "map" in str(functions + components).lower() (line 51): the repr of a
\* function dict shows its name, description and decorators
MapInRepr(functions, components) ==
    \/ \E k \in 1..Len(functions) :
          \/ Contains(Lower(functions[k].name), MapMarker)
          \/ ("description" \in functions[k].keys
                /\ Contains(Lower(functions[k].description), MapMarker))
          \/ ("decorators" \in functions[k].keys
                /\ InReprOfList(MapMarker, functions[k].decorators, TRUE))
    \/ InReprOfList(MapMarker, components, TRUE)

\* ComponentDescription adding only the first sentence that applies
ComponentDescription_FirstOnly(components, functions, imports, hooks) ==
    <<"This React functional component named '">> \o components[1]
      \o <<"' is responsible for rendering UI for the related feature.">>
      \o (IF UseState \in Range(hooks)
          THEN <<" It uses React Hooks for state management.">>
          ELSE IF UseEffect \in Range(hooks)
          THEN <<" It uses lifecycle side effects through useEffect.">>
          ELSE IF \E m \in HttpMarkers : InReprOfList(m, imports, TRUE)
          THEN <<" It interacts with backend APIs using HTTP requests.">>
          ELSE IF MapInRepr(functions, components)
          THEN <<" It dynamically renders UI elements using array mapping.">>
          ELSE <<>>)

ComponentDescription(components, functions, imports, hooks) ==
    <<"This React functional component named '">> \o components[1]
      \o <<"' is responsible for rendering UI for the related feature.">>
      \o (IF UseState \in Range(hooks)
          THEN <<" It uses React Hooks for state management.">> ELSE <<>>)
      \o (IF UseEffect \in Range(hooks)
          THEN <<" It uses lifecycle side effects through useEffect.">> ELSE <<>>)
      \o (IF \E m \in HttpMarkers : InReprOfList(m, imports, TRUE)
          THEN <<" It interacts with backend APIs using HTTP requests.">> ELSE <<>>)
      \o (IF MapInRepr(functions, components)
          THEN <<" It dynamically renders UI elements using array mapping.">> ELSE <<>>)

ScriptFuncSentence(func) ==
    IF Get(func, "is_async", FALSE)
    THEN <<"This asynchronous backend function '">> \o Get(func, "name", <<>>)
           \o <<"' likely handles business logic or request processing.">>
    ELSE <<"This backend function '">> \o Get(func, "name", <<>>)
           \o <<"' handles specific application logic.">>

PythonFuncSentence(func) ==
    <<"This Python function '">> \o Get(func, "name", <<>>)
      \o <<"' performs backend data processing logic.">>
      \o (IF \E m \in ApiDecoratorMarkers : InReprOfList(m, Get(func, "decorators", <<>>), FALSE)
          THEN <<" It is exposed as an API endpoint.">> ELSE <<>>)

\* generate_description with the function rules applied to component files too
generate_description_Additive(file_analysis, h) ==
    LET language == file_analysis.language
        components == file_analysis.components
        functions == file_analysis.functions
        imports == file_analysis.imports
        hooks == Get(file_analysis, "react_hooks", <<>>)
        routes == file_analysis.routes
        first3 == Take(functions, 3)
        route3 == Take(routes, 3)
        route_methods == ListOfSet([k \in 1..Len(route3) |-> Upper(Get(route3[k], "method", <<>>))], h)
        descriptions ==
            (IF components # <<>>
             THEN <<ComponentDescription(components, functions, imports, hooks)>> ELSE <<>>)
            \o IF language \in ScriptLanguages /\ functions # <<>>
            THEN <<Join(Take([k \in 1..Len(first3) |-> ScriptFuncSentence(first3[k])], 2), Space)>>
                 \o (IF routes # <<>>
                     THEN << <<"This file defines API endpoints using Express routing with ">>
                             \o Join(route_methods, <<",", " ">>) \o <<" methods.">> >>
                     ELSE <<>>)
            ELSE IF language = LangPython /\ functions # <<>>
            THEN <<Join(Take([k \in 1..Len(first3) |-> PythonFuncSentence(first3[k])], 2), Space)>>
                 \o (IF routes # <<>>
                     THEN << <<"This module defines ">> \o Digits(Len(routes))
                             \o <<" API route(s) for handling HTTP requests.">> >>
                     ELSE <<>>)
            ELSE <<>>
        generic ==
            IF language \in ScriptLanguages
            THEN <<"This ">> \o language \o <<" module contains utility functions and helper methods.">>
            ELSE IF language = LangPython
            THEN <<"This Python module provides core functionality for the application.">>
            ELSE <<"This ">> \o language \o <<" file contains application logic.">>
    IN IF descriptions = <<>> THEN generic ELSE Join(descriptions, Space)

generate_description(file_analysis, h) ==
    LET language == file_analysis.language
        components == file_analysis.components
        functions == file_analysis.functions
        imports == file_analysis.imports
        hooks == Get(file_analysis, "react_hooks", <<>>)
        routes == file_analysis.routes
        first3 == Take(functions, 3)
        route3 == Take(routes, 3)
        route_methods == ListOfSet([k \in 1..Len(route3) |-> Upper(Get(route3[k], "method", <<>>))], h)
        descriptions ==
            IF components # <<>>
            THEN <<ComponentDescription(components, functions, imports, hooks)>>
            ELSE IF language \in ScriptLanguages /\ functions # <<>>
            THEN <<Join(Take([k \in 1..Len(first3) |-> ScriptFuncSentence(first3[k])], 2), Space)>>
                 \o (IF routes # <<>>
                     THEN << <<"This file defines API endpoints using Express routing with ">>
                             \o Join(route_methods, <<",", " ">>) \o <<" methods.">> >>
                     ELSE <<>>)
            ELSE IF language = LangPython /\ functions # <<>>
            THEN <<Join(Take([k \in 1..Len(first3) |-> PythonFuncSentence(first3[k])], 2), Space)>>
                 \o (IF routes # <<>>
                     THEN << <<"This module defines ">> \o Digits(Len(routes))
                             \o <<" API route(s) for handling HTTP requests.">> >>
                     ELSE <<>>)
            ELSE <<>>
        generic ==
            IF language \in ScriptLanguages
            THEN <<"This ">> \o language \o <<" module contains utility functions and helper methods.">>
            ELSE IF language = LangPython
            THEN <<"This Python module provides core functionality for the application.">>
            ELSE <<"This ">> \o language \o <<" file contains application logic.">>
    IN IF descriptions = <<>> THEN generic ELSE Join(descriptions, Space)

\* _infer_function_purpose with the rule for "validate" tried before the prefix rules
_infer_function_purpose_ValidateFirst(func_name, language, decorators) ==
    LET name_lower == Lower(func_name)
    IN IF Contains(name_lower, <<"v","a","l","i","d","a","t","e">>)
            THEN <<"Validates data or input">>
       ELSE IF StartsWith(func_name, <<"u","s","e">>) /\ language \in ScriptLanguages
       THEN <<"Custom React hook for managing ">> \o Drop(func_name, 3) \o <<" state or behavior">>
       ELSE IF StartsWith(name_lower, <<"g","e","t">>) \/ StartsWith(name_lower, <<"f","e","t","c","h">>)
            THEN <<"Retrieves or fetches data">>
       ELSE IF StartsWith(name_lower, <<"c","r","e","a","t","e">>) \/ StartsWith(name_lower, <<"a","d","d">>)
            THEN <<"Creates or adds new data">>
       ELSE IF StartsWith(name_lower, <<"u","p","d","a","t","e">>) \/ StartsWith(name_lower, <<"e","d","i","t">>)
            THEN <<"Updates or modifies existing data">>
       ELSE IF StartsWith(name_lower, <<"d","e","l","e","t","e">>) \/ StartsWith(name_lower, <<"r","e","m","o","v","e">>)
            THEN <<"Deletes or removes data">>
       ELSE IF StartsWith(name_lower, <<"h","a","n","d","l","e">>)
            THEN <<"Handles ">> \o Drop(func_name, 6) \o <<" event or action">>
       ELSE IF StartsWith(name_lower, <<"o","n">>)
            THEN <<"Event handler for ">> \o Drop(func_name, 2)
       ELSE IF Contains(name_lower, <<"v","a","l","i","d","a","t","e">>)
            THEN <<"Validates data or input">>
       ELSE IF Contains(name_lower, <<"p","r","o","c","e","s","s">>) \/ Contains(name_lower, <<"p","a","r","s","e">>)
            THEN <<"Processes or transforms data">>
       ELSE IF Contains(name_lower, <<"r","e","n","d","e","r">>)
            THEN <<"Renders UI component or view">>
       ELSE IF Contains(name_lower, <<"i","n","i","t">>) \/ Contains(name_lower, <<"s","e","t","u","p">>)
            THEN <<"Initializes or sets up the application or module">>
       ELSE IF Contains(name_lower, <<"l","o","g","i","n">>) \/ Contains(name_lower, <<"a","u","t","h">>)
            THEN <<"Handles authentication or authorization">>
       ELSE IF Contains(name_lower, <<"l","o","g","o","u","t">>)
            THEN <<"Handles user logout">>
       ELSE IF Contains(name_lower, <<"a","p","i">>) \/ Contains(name_lower, <<"r","e","q","u","e","s","t">>)
            THEN <<"Makes API request or handles network communication">>
       ELSE IF Contains(name_lower, <<"s","a","v","e">>) \/ Contains(name_lower, <<"s","t","o","r","e">>)
            THEN <<"Saves or stores data">>
       ELSE IF Contains(name_lower, <<"l","o","a","d">>)
            THEN <<"Loads data from storage">>
       ELSE IF Contains(name_lower, <<"f","o","r","m","a","t">>) \/ Contains(name_lower, <<"t","r","a","n","s","f","o","r","m">>)
            THEN <<"Formats or transforms data">>
       ELSE IF Contains(name_lower, <<"c","o","n","v","e","r","t">>)
            THEN <<"Converts data from one format to another">>
       ELSE IF Contains(name_lower, <<"c","a","l","c","u","l","a","t","e">>) \/ Contains(name_lower, <<"c","o","m","p","u","t","e">>)
            THEN <<"Performs calculations or computations">>
       ELSE IF Contains(name_lower, <<"s","e","a","r","c","h">>) \/ Contains(name_lower, <<"f","i","n","d">>)
            THEN <<"Searches or finds specific data">>
       ELSE IF Contains(name_lower, <<"f","i","l","t","e","r">>)
            THEN <<"Filters data based on criteria">>
       ELSE IF \E k \in 1..Len(decorators) :
                 \E x \in PurposeDecoratorMarkers : Contains(Lower(decorators[k]), x)
            THEN <<"API endpoint handler function">>
       ELSE IF language \in ScriptLanguages THEN <<"JavaScript/TypeScript utility function">>
       ELSE IF language = LangPython THEN <<"Python helper function">>
       ELSE <<>>

\* the name-rule list of _infer_function_purpose, first match wins
_infer_function_purpose(func_name, language, decorators) ==
    LET name_lower == Lower(func_name)
    IN IF StartsWith(func_name, <<"u","s","e">>) /\ language \in ScriptLanguages
       THEN <<"Custom React hook for managing ">> \o Drop(func_name, 3) \o <<" state or behavior">>
       ELSE IF StartsWith(name_lower, <<"g","e","t">>) \/ StartsWith(name_lower, <<"f","e","t","c","h">>)
            THEN <<"Retrieves or fetches data">>
       ELSE IF StartsWith(name_lower, <<"c","r","e","a","t","e">>) \/ StartsWith(name_lower, <<"a","d","d">>)
            THEN <<"Creates or adds new data">>
       ELSE IF StartsWith(name_lower, <<"u","p","d","a","t","e">>) \/ StartsWith(name_lower, <<"e","d","i","t">>)
            THEN <<"Updates or modifies existing data">>
       ELSE IF StartsWith(name_lower, <<"d","e","l","e","t","e">>) \/ StartsWith(name_lower, <<"r","e","m","o","v","e">>)
            THEN <<"Deletes or removes data">>
       ELSE IF StartsWith(name_lower, <<"h","a","n","d","l","e">>)
            THEN <<"Handles ">> \o Drop(func_name, 6) \o <<" event or action">>
       ELSE IF StartsWith(name_lower, <<"o","n">>)
            THEN <<"Event handler for ">> \o Drop(func_name, 2)
       ELSE IF Contains(name_lower, <<"v","a","l","i","d","a","t","e">>)
            THEN <<"Validates data or input">>
       ELSE IF Contains(name_lower, <<"p","r","o","c","e","s","s">>) \/ Contains(name_lower, <<"p","a","r","s","e">>)
            THEN <<"Processes or transforms data">>
       ELSE IF Contains(name_lower, <<"r","e","n","d","e","r">>)
            THEN <<"Renders UI component or view">>
       ELSE IF Contains(name_lower, <<"i","n","i","t">>) \/ Contains(name_lower, <<"s","e","t","u","p">>)
            THEN <<"Initializes or sets up the application or module">>
       ELSE IF Contains(name_lower, <<"l","o","g","i","n">>) \/ Contains(name_lower, <<"a","u","t","h">>)
            THEN <<"Handles authentication or authorization">>
       ELSE IF Contains(name_lower, <<"l","o","g","o","u","t">>)
            THEN <<"Handles user logout">>
       ELSE IF Contains(name_lower, <<"a","p","i">>) \/ Contains(name_lower, <<"r","e","q","u","e","s","t">>)
            THEN <<"Makes API request or handles network communication">>
       ELSE IF Contains(name_lower, <<"s","a","v","e">>) \/ Contains(name_lower, <<"s","t","o","r","e">>)
            THEN <<"Saves or stores data">>
       ELSE IF Contains(name_lower, <<"l","o","a","d">>)
            THEN <<"Loads data from storage">>
       ELSE IF Contains(name_lower, <<"f","o","r","m","a","t">>) \/ Contains(name_lower, <<"t","r","a","n","s","f","o","r","m">>)
            THEN <<"Formats or transforms data">>
       ELSE IF Contains(name_lower, <<"c","o","n","v","e","r","t">>)
            THEN <<"Converts data from one format to another">>
       ELSE IF Contains(name_lower, <<"c","a","l","c","u","l","a","t","e">>) \/ Contains(name_lower, <<"c","o","m","p","u","t","e">>)
            THEN <<"Performs calculations or computations">>
       ELSE IF Contains(name_lower, <<"s","e","a","r","c","h">>) \/ Contains(name_lower, <<"f","i","n","d">>)
            THEN <<"Searches or finds specific data">>
       ELSE IF Contains(name_lower, <<"f","i","l","t","e","r">>)
            THEN <<"Filters data based on criteria">>
       ELSE IF \E k \in 1..Len(decorators) :
                 \E x \in PurposeDecoratorMarkers : Contains(Lower(decorators[k]), x)
            THEN <<"API endpoint handler function">>
       ELSE IF language \in ScriptLanguages THEN <<"JavaScript/TypeScript utility function">>
       ELSE IF language = LangPython THEN <<"Python helper function">>
       ELSE <<>>

\* LocalInferenceEngine._fallback_description for a function_info without
\* params, returns and docstring (enhance_function_descriptions never finds
\* these keys on a parsed function)
_fallback_description(func_name) ==
    <<"The '">> \o func_name \o <<"' function">>
      \o <<" performs specific operations within the codebase.">>

GeneratedText == <<"<generated text>">>

\* Outcomes of one call of gen_func_desc under an inference mode:
\*   not_importable  local_inference cannot be imported (HAS_LOCAL_inference False)
\*   no_model        no transformers / no generator: the engine's own fallback
\*   model           the generator answers with a text, answers with an empty
\*                   text, or raises inside the engine (engine fallback)
InferenceModes == {"not_importable", "no_model", "model"}

CallOutcomes(mode) == IF mode = "model" THEN {"text", "empty", "raise"} ELSE {"none"}

\* local_inference.generate_function_description
gen_func_desc(func_name, mode, outcome) ==
    IF mode = "no_model" THEN _fallback_description(func_name)
    ELSE IF outcome = "text" THEN GeneratedText
    ELSE IF outcome = "empty" THEN <<>>
    ELSE _fallback_description(func_name)

RECURSIVE Strip(_)
\* str.strip() on blanks
Strip(s) ==
    IF s = <<>> THEN s
    ELSE IF s[1] = " " THEN Strip(Tail(s))
    ELSE IF s[Len(s)] = " " THEN Strip(SubSeq(s, 1, Len(s) - 1))
    ELSE s

\* local_inference.get_inference_engine over the calls one record causes:
\* the first call of gen_func_desc creates the engine and stores it in the
\* module-level variable; gen_func_desc is called for every function that
\* has no description
get_inference_engine(engine, mode, functions) ==
    IF /\ mode # "not_importable"
       /\ \E k \in 1..Len(functions) : Strip(Get(functions[k], "description", <<>>)) = <<>>
    THEN "LocalInferenceEngine"
    ELSE engine

\* EnhanceOne without the test that skips a function that has a description
EnhanceOne_Overwrite(func, language, mode, outcome) ==
    LET func_name == Get(func, "name", <<>>)
        fromModel == IF mode = "not_importable" THEN <<>>
                     ELSE gen_func_desc(func_name, mode, outcome)
        description == IF fromModel # <<>> THEN fromModel
                       ELSE _infer_function_purpose(func_name, language, Get(func, "decorators", <<>>))
    IN IF description # <<>>
       THEN [func EXCEPT !.description = description, !.keys = @ \cup {"description"}]
       ELSE func

\* the body of the loop of enhance_function_descriptions for one function
EnhanceOne(func, language, mode, outcome) ==
    LET func_name == Get(func, "name", <<>>)
        fromModel == IF mode = "not_importable" THEN <<>>
                     ELSE gen_func_desc(func_name, mode, outcome)
        description == IF fromModel # <<>> THEN fromModel
                       ELSE _infer_function_purpose(func_name, language, Get(func, "decorators", <<>>))
    IN IF Strip(Get(func, "description", <<>>)) # <<>> THEN func
       ELSE IF description # <<>>
            THEN [func EXCEPT !.description = description, !.keys = @ \cup {"description"}]
       ELSE func

\* outcomes[k] is the outcome of the generator for the k-th function
enhance_function_descriptions(functions, language, mode, outcomes) ==
    Tuple([k \in 1..Len(functions) |-> EnhanceOne(functions[k], language, mode, outcomes[k])])

\* the body of the annotation loop of run_analysis (lines 129-141)
AnnotateOne(analysis, h, mode, outcomes) ==
    LET description == generate_description(analysis, h)
        a1 == IF description # <<>>
              THEN [analysis EXCEPT !.semantic_description = description,
                                    !.keys = @ \cup {"semantic_description"}]
              ELSE analysis
    IN IF a1.functions # <<>>
       THEN [a1 EXCEPT !.functions =
                enhance_function_descriptions(@, Get(a1, "language", <<>>), mode, outcomes)]
       ELSE a1

\* ------------------------------------------------------- graph builder
\* graph_builder._path_to_module
_path_to_module(path) ==
    LET name == Replace(Replace(path, "/", "."), "\\", ".")
        hits == {k \in 1..Len(ModuleExtensions) : EndsWith(name, ModuleExtensions[k])}
    IN IF hits = {} THEN name
       ELSE LET k == CHOOSE m \in hits : \A n \in hits : m <= n
            IN SubSeq(name, 1, Len(name) - Len(ModuleExtensions[k]))

\* An adjacency dict: its keys in insertion order and the successor lists.
EmptyAdjacency == [keys |-> <<>>, succ |-> <<>>]

\* adjacency[key] = list (a key that exists keeps its position)
AdjSet(adj, key, list) ==
    IF key \in Range(adj.keys)
    THEN [adj EXCEPT !.succ =
             [k \in 1..Len(adj.keys) |-> IF adj.keys[k] = key THEN list ELSE adj.succ[k]]]
    ELSE [keys |-> Append(adj.keys, key), succ |-> Append(adj.succ, list)]

\* adjacency[key]
AdjGet(adj, key) ==
    adj.succ[CHOOSE k \in 1..Len(adj.keys) : adj.keys[k] = key]

\* the diagram handed to the renderer: nodes (id and label) and edges by id
EmptyDot == [nodes |-> {}, edges |-> {}]

DotNode(id, label) == [id |-> id, label |-> label]

\* What a builder returns, (png, adjacency), together with what it built on
\* the way: nodes, the graph's node set under the names the adjacency uses;
\* dot, the diagram; rendered, the number of calls of _render_graph.
NoGraph ==
    [png |-> "None", adjacency |-> EmptyAdjacency, nodes |-> {}, dot |-> EmptyDot, rendered |-> 0]

\* _render_graph: dot.render succeeds and the file exists ("ok"), dot.render
\* raises ("raise"), or no file was produced ("nofile")
RenderOutcomes == {"ok", "raise", "nofile"}

\* _render_graph without its try/except: the exception of dot.render leaves it
_render_graph_Propagates(name, outcome) ==
    IF outcome = "ok" THEN name ELSE IF outcome = "raise" THEN "RAISE" ELSE "None"

\* the value "RAISE" stands for an exception leaving the function
_render_graph(name, outcome) == IF outcome = "ok" THEN name ELSE "None"

\* build_all_graphs, try/except around a builder: a builder that raises
\* leaves the entry as initialised
TryBuild(result) == IF result.png = "RAISE" THEN [NoGraph EXCEPT !.rendered = result.rendered] ELSE result

\* lines 43-44
ImportBase(imp) ==
    Replace(Replace(SplitFirst(imp, "."), "/", "."), "\\", ".")

\* lines 47-49: the indices of the module names an import matches
ImportHits(imp, module_names) ==
    LET imp_base == ImportBase(imp)
    IN {k \in 1..Len(module_names) :
           \/ imp_base = SplitLast(module_names[k], ".")
           \/ Contains(module_names[k], imp_base)}

\* ImportEdge without the test of line 50 (mod_name != source_module)
ImportEdge_NoSelfGuard(imp, source_module, module_names) ==
    LET hits == ImportHits(imp, module_names)
    IN IF hits = {} THEN <<>>
       ELSE <<module_names[CHOOSE m \in hits : \A n \in hits : m <= n]>>

\* lines 47-53: the successor one import adds to source_module, as a list
ImportEdge(imp, source_module, module_names) ==
    LET hits == ImportHits(imp, module_names)
    IN IF hits = {} THEN <<>>
       ELSE LET mod_name == module_names[CHOOSE m \in hits : \A n \in hits : m <= n]
            IN IF mod_name # source_module THEN <<mod_name>> ELSE <<>>

\* the successors the imports of one analysis add, in order
ImportEdges(analysis, module_names) ==
    LET imports == Get(analysis, "imports", <<>>)
    IN Flatten([k \in 1..Len(imports) |->
          ImportEdge(imports[k], _path_to_module(analysis.file_path), module_names)])

\* The adjacency the loop of lines 37-53 leaves: one key per module, in the
\* order of first assignment; line 40 resets the list of a module that comes
\* again, so the list of a key is the one built for its last analysis.
ModuleAdjacency(source_analysis, mods, module_names) ==
    LET lastOf(m) ==
            CHOOSE k \in 1..Len(mods) : mods[k] = m /\ \A j \in (k + 1)..Len(mods) : mods[j] # m
    IN [keys |-> module_names,
        succ |-> Tuple([n \in 1..Len(module_names) |->
                     ImportEdges(source_analysis[lastOf(module_names[n])], module_names)])]

\* the list edges of lines 25 and 51, as pairs
ModuleEdgeList(source_analysis, module_names) ==
    Flatten([k \in 1..Len(source_analysis) |->
        LET e == ImportEdges(source_analysis[k], module_names)
        IN Tuple([n \in 1..Len(e) |-> <<_path_to_module(source_analysis[k].file_path), e[n]>>])])

\* graph_builder._shorten_label with max_len = 25
_shorten_label(name) ==
    IF Len(name) <= LabelMaxLen THEN name
    ELSE IF Cardinality({k \in 1..Len(name) : name[k] = "."}) >= 2
         THEN LET last == LastIndex(name, ".")
                  prev == LastIndex(SubSeq(name, 1, last - 1), ".")
              IN <<".", ".", ".">> \o SubSeq(name, prev + 1, Len(name))
    ELSE Take(name, LabelMaxLen - 3) \o <<".", ".", ".">>

build_module_dependency_graph(source_analysis, h, outcome) ==
    LET mods == Tuple([k \in 1..Len(source_analysis) |-> _path_to_module(source_analysis[k].file_path)])
        module_names == Dedup(mods)
        adjacency == ModuleAdjacency(source_analysis, mods, module_names)
        edges == ModuleEdgeList(source_analysis, module_names)
        display_nodes == Take(ListOfSet(mods, h), ModuleDisplayCap)
        shown == Range(display_nodes)
        dot == [nodes |-> {DotNode(m, _shorten_label(m)) : m \in shown},
                edges |-> {e \in Range(edges) : e[1] \in shown /\ e[2] \in shown}]
    IN IF source_analysis = <<>> THEN NoGraph
       ELSE [png |-> _render_graph("module_dependencies.png", outcome),
             adjacency |-> adjacency, nodes |-> Range(mods), dot |-> dot, rendered |-> 1]

API_Gateway == <<"API_Gateway">>

\* lines 108-114: the routes of all analyses, each with its module as "file"
AllRoutes(source_analysis) ==
    Flatten([k \in 1..Len(source_analysis) |->
        LET rs == Get(source_analysis[k], "routes", <<>>)
        IN Tuple([n \in 1..Len(rs) |->
              [route |-> rs[n], file |-> _path_to_module(source_analysis[k].file_path)]])])

\* RouteLabel showing the path only
RouteLabel_PathOnly(route) == Get(route, "path", Get(route, "decorator", <<>>))

\* line 165
RouteLabel(route) ==
    LET method == Get(route, "method", <<>>)
        path == Get(route, "path", Get(route, "decorator", <<>>))
    IN IF method # <<>> THEN method \o Space \o path ELSE path

RouteNodeId(i) == <<"route_">> \o Digits(i)

HandlerNodeId(i) == <<"handler_">> \o Digits(i)

\* line 173
HandlerLabel(r) == Get(r.route, "function", <<>>) \o <<"()\n">> \o r.file

build_route_flow_graph(source_analysis, outcome) ==
    LET routes == AllRoutes(source_analysis)
        shown == Take(routes, RouteDisplayCap)
        withHandler == {k \in 1..Len(shown) : Get(shown[k].route, "function", <<>>) # <<>>}
        adjacency == AdjSet(EmptyAdjacency, API_Gateway,
                            Tuple([k \in 1..Len(shown) |-> RouteLabel(shown[k].route)]))
        dot == [nodes |-> {DotNode(API_Gateway, <<"API Gateway">>)}
                            \cup {DotNode(RouteNodeId(k - 1), RouteLabel(shown[k].route)) :
                                     k \in 1..Len(shown)}
                            \cup {DotNode(HandlerNodeId(k - 1), HandlerLabel(shown[k])) :
                                     k \in withHandler},
                edges |-> {<<API_Gateway, RouteNodeId(k - 1)>> : k \in 1..Len(shown)}
                            \cup {<<RouteNodeId(k - 1), HandlerNodeId(k - 1)>> : k \in withHandler}]
        nodes == {API_Gateway} \cup {RouteLabel(shown[k].route) : k \in 1..Len(shown)}
                   \cup {HandlerLabel(shown[k]) : k \in withHandler}
    IN IF routes = <<>> THEN NoGraph
       ELSE [png |-> _render_graph("api_routes.png", outcome),
             adjacency |-> adjacency, nodes |-> nodes, dot |-> dot, rendered |-> 1]

\* lines 192-200: the keys of the dict components, in insertion order
ComponentKeys(source_analysis) ==
    Dedup(Flatten([k \in 1..Len(source_analysis) |-> Get(source_analysis[k], "components", <<>>)]))

\* components[comp]["imports"]: the imports of the last analysis declaring comp
ComponentImports(source_analysis, comp) ==
    LET owners == {k \in 1..Len(source_analysis) :
                      comp \in Range(Get(source_analysis[k], "components", <<>>))}
        last == CHOOSE k \in owners : \A j \in owners : j <= k
    IN Get(source_analysis[last], "imports", <<>>)

\* components[comp]["hooks"]: the recognised hooks of the last analysis declaring comp
ComponentHooks(source_analysis, comp) ==
    LET owners == {k \in 1..Len(source_analysis) :
                      comp \in Range(Get(source_analysis[k], "components", <<>>))}
        last == CHOOSE k \in owners : \A j \in owners : j <= k
    IN Get(source_analysis[last], "react_hooks", <<>>)

\* lines 243-246
ComponentLabel(comp_name, hooks) ==
    <<"<">> \o comp_name \o <<"/>">>
      \o (IF hooks # <<>> THEN <<"\n[">> \o Join(Take(hooks, 3), <<",", " ">>) \o <<"]">> ELSE <<>>)

\* lines 208-212 for one import of comp_name; comp_names in set iteration order
ComponentEdge(imp, comp_name, comp_names) ==
    LET imp_base == SplitLast(imp, "/")
        hits == {k \in 1..Len(comp_names) :
                    comp_names[k] # comp_name /\ Lower(comp_names[k]) = Lower(imp_base)}
    IN SelectSeqBy(comp_names, {comp_names[k] : k \in hits})

build_component_graph(source_analysis, h, outcome) ==
    LET keys == ComponentKeys(source_analysis)
        comp_names == ListOfSet(keys, h)
        succOf(comp) ==
            LET imports == ComponentImports(source_analysis, comp)
            IN Flatten([n \in 1..Len(imports) |-> ComponentEdge(imports[n], comp, comp_names)])
        adjacency == [keys |-> keys, succ |-> Tuple([k \in 1..Len(keys) |-> succOf(keys[k])])]
        display_comps == Take(keys, ComponentDisplayCap)
        shown == Range(display_comps)
        dot == [nodes |-> {DotNode(display_comps[k],
                                   ComponentLabel(display_comps[k],
                                                  ComponentHooks(source_analysis, display_comps[k]))) :
                              k \in 1..Len(display_comps)},
                edges |-> UNION {{<<display_comps[k], c>> : c \in Range(adjacency.succ[k]) \cap shown} :
                                  k \in 1..Len(display_comps)}]
    IN IF keys = <<>> THEN NoGraph
       ELSE [png |-> _render_graph("component_graph.png", outcome),
             adjacency |-> adjacency, nodes |-> Range(keys), dot |-> dot, rendered |-> 1]

\* --------------------------------------------------------------- inputs
Stmt(kind, name, arg, arg2) ==
    [kind |-> kind, name |-> name, arg |-> arg, arg2 |-> arg2, decs |-> <<>>,
     bases |-> <<>>, is_async |-> FALSE, doc |-> <<>>, exported |-> FALSE]

Expr(form, parts) == [form |-> form, parts |-> parts]

SourceFile(path, present, stmts) == [path |-> path, present |-> present, stmts |-> stmts]

\* def get_user(id): ...
DefGetUser == Stmt("def", <<"g","e","t","_","u","s","e","r">>, <<>>, <<>>)

\* @app.route("/items") def list_items(): ...
DefListItems ==
    [Stmt("def", <<"l","i","s","t","_","i","t","e","m","s">>, <<>>, <<>>) EXCEPT
        !.decs = <<Expr("call_attr", <<<<"a","p","p">>, <<"r","o","u","t","e">>>>)>>]

\* class Repo(pkg.Base): ...
ClassRepo ==
    [Stmt("class", <<"R","e","p","o">>, <<>>, <<>>) EXCEPT
        !.bases = <<Expr("attr", <<<<"p","k","g">>, <<"B","a","s","e">>>>)>>]

\* The repository trees the runs are drawn from: files with distinct paths.
Pool == <<
    \* s/a.py : a module without imports
    SourceFile(<<"s","/","a",".","p","y">>, TRUE, <<DefGetUser, ClassRepo>>),
    \* b.py : import a; from a import x; import b; a decorated route handler
    SourceFile(<<"b",".","p","y">>, TRUE,
        <<Stmt("import", <<"a">>, <<>>, <<>>), Stmt("from", <<"a">>, <<"x">>, <<>>),
          Stmt("import", <<"b">>, <<>>, <<>>), DefListItems>>),
    \* c.py : text that is not valid Python
    SourceFile(<<"c",".","p","y">>, TRUE, <<Stmt("def", <<"g","e","t","_","u","s","e","r">>, <<>>, <<>>), Stmt("bad", <<>>, <<>>, <<>>)>>),
    \* a.js : app.get("/users", h1); app.post("/users", h2);
    \*        import b from "b"; async function getUser() {}
    SourceFile(<<"a",".","j","s">>, TRUE,
        <<Stmt("route", <<"a","p","p">>, <<"g","e","t">>, <<"/","u","s","e","r","s">>), Stmt("route", <<"a","p","p">>, <<"p","o","s","t">>, <<"/","u","s","e","r","s">>),
          Stmt("import_default", <<>>, <<"b">>, <<>>),
          [Stmt("function", <<"g","e","t","U","s","e","r">>, <<>>, <<>>) EXCEPT !.is_async = TRUE]>>),
    \* App.tsx : function App() { useState(); } with imports axios, ./Btn, ../ui/Btn, ./App
    SourceFile(<<"A","p","p",".","t","s","x">>, TRUE,
        <<Stmt("import_named", <<>>, <<"a","x","i","o","s">>, <<>>), Stmt("import_default", <<>>, <<".","/","B","t","n">>, <<>>),
          Stmt("import_named", <<>>, <<".",".","/","u","i","/","B","t","n">>, <<>>), Stmt("import_named", <<>>, <<".","/","A","p","p">>, <<>>),
          [Stmt("function", <<"A","p","p">>, <<>>, <<>>) EXCEPT !.exported = TRUE],
          Stmt("hookcall", <<"u","s","e","S","t","a","t","e">>, <<>>, <<>>)>>),
    \* Btn.jsx : const Btn = () => ...; const BTN = memo(...); import App from "./App"
    SourceFile(<<"B","t","n",".","j","s","x">>, TRUE,
        <<Stmt("import_default", <<>>, <<".","/","A","p","p">>, <<>>), Stmt("arrow", <<"B","t","n">>, <<>>, <<>>),
          Stmt("hoc", <<"B","T","N">>, <<>>, <<>>)>>),
    \* e.py : the empty string
    SourceFile(<<"e",".","p","y">>, TRUE, <<>>),
    \* n.ts : content not fetched (None)
    SourceFile(<<"n",".","t","s">>, FALSE, <<>>),
    \* r.md : an extension that is no source extension
    SourceFile(<<"r",".","m","d">>, TRUE, <<Stmt("function", <<"g","e","t","U","s","e","r">>, <<>>, <<>>)>>),
    \* U.PY : upper-case extension
    SourceFile(<<"U",".","P","Y">>, TRUE, <<DefGetUser>>)
>>

RECURSIVE IndexSeqs(_)
\* the sequences of n distinct indices of Pool
IndexSeqs(n) ==
    IF n = 0 THEN {<<>>}
    ELSE {q \in {Append(r, k) : r \in IndexSeqs(n - 1), k \in 1..Len(Pool)} : NoDuplicates(q)}

\* the file lists of at most MaxFiles files of the pool
FileLists ==
    UNION {{[k \in 1..Len(q) |-> Pool[q[k]]] : q \in IndexSeqs(n)} : n \in 0..MaxFiles}

\* Large repositories: n files of one shape, file k named after k.
\*   py   m<k>.py   : import m<k-1>;  @app.get(...) def h<k>()
\*   js   r<k>.js   : app.get("/p<k>", h)
\*   tsx  C<k>.tsx  : function C<k>() {} ; import C<k-1> from "./C<k-1>"
CapShapes == {"py", "js", "tsx"}

CapFile(shape, k) ==
    IF shape = "py"
    THEN SourceFile(<<"m">> \o Digits(k) \o ExtPy, TRUE,
            <<Stmt("import", <<"m">> \o Digits(k - 1), <<>>, <<>>),
              [Stmt("def", <<"h">> \o Digits(k), <<>>, <<>>) EXCEPT
                  !.decs = <<Expr("call_attr", <<<<"a","p","p">>, <<"g","e","t">>>>)>>]>>)
    ELSE IF shape = "js"
    THEN SourceFile(<<"r">> \o Digits(k) \o ExtJs, TRUE,
            <<Stmt("route", <<"a","p","p">>, <<"g","e","t">>, <<"/", "p">> \o Digits(k))>>)
    ELSE SourceFile(<<"C">> \o Digits(k) \o ExtTsx, TRUE,
            <<Stmt("function", <<"C">> \o Digits(k), <<>>, <<>>),
              Stmt("import_default", <<>>, <<".", "/", "C">> \o Digits(k - 1), <<>>)>>)

CapFileLists ==
    {[k \in 1..n |-> CapFile(shape, k)] : n \in (MaxCapFiles - 1)..MaxCapFiles, shape \in CapShapes}

\* Small repositories of modules that import one another: the paths a.py,
\* b.py, ba.py and a.js, each file with no import or with one import token.
ModPaths ==
    {<<"a">> \o ExtPy, <<"b">> \o ExtPy, <<"b","a">> \o ExtPy, <<"a">> \o ExtJs}

ModImports == {<<>>, <<"a">>, <<"b">>}

\* "import <token>" in Python, "import x from '<token>'" in JavaScript
ModFile(path, token) ==
    SourceFile(path, TRUE,
        IF token = <<>> THEN <<Stmt("pass", <<>>, <<>>, <<>>)>>
        ELSE IF EndsWith(path, ExtPy) THEN <<Stmt("import", token, <<>>, <<>>)>>
        ELSE <<Stmt("import_default", <<>>, token, <<>>)>>)

ModFiles == {ModFile(path, token) : path \in ModPaths, token \in ModImports}

RECURSIVE ModLists(_)
\* the lists of n files of ModFiles with pairwise distinct paths
ModLists(n) ==
    IF n = 0 THEN {<<>>}
    ELSE {Append(r, f) : r \in ModLists(n - 1),
                         f \in ModFiles}

ModFileLists ==
    {q \in UNION {ModLists(n) : n \in 0..MaxModFiles} :
        \A i, j \in 1..Len(q) : i # j => q[i].path # q[j].path}

\* Repositories of files of functions: the file f.py or f.js holds one
\* function, named by one of the names below, in one of the shapes
\*   plain       def name(): ...                 function name() {}
\*   routed      @app.route("/x") def name()
\*   hooked      @post_load def name()
\*   documented  def name(): """Doc."""          /** Doc. */ function name() {}
\*   async                                       async function name() {}
\* and g.py and g.js hold three functions:
\*   g.py  def run; @app.route("/x") def getValidate; def useAuth
\*   g.js  const run = () => {}; async function getValidate() {};
\*         const run = function () {}; function* handleLogin() {}; app.get("/x", h)
\* and h.tsx, h.py and h.go are a component file and two files without functions:
\*   h.tsx function App() {}; function run() {}; app.get("/x", h)
\*   h.py  pass
\*   h.go  (no class, function or import)
FuncFiles ==
    LET names == {<<"g","e","t","V","a","l","i","d","a","t","e">>, <<"h","a","n","d","l","e","L","o","g","i","n">>, <<"u","s","e","A","u","t","h">>, <<"U","s","e","A","u","t","h">>, <<"U","S","E","F","O","R","M">>, <<"r","u","n">>}
        doc == <<"D","o","c",".">>
        route == <<Expr("call_attr", <<<<"a","p","p">>, <<"r","o","u","t","e">>>>)>>
        hook == <<Expr("name", <<<<"p","o","s","t","_","l","o","a","d">>>>)>>
        def(name) == Stmt("def", name, <<>>, <<>>)
        function(name) == Stmt("function", name, <<>>, <<>>)
        py(name) == {def(name), [def(name) EXCEPT !.decs = route],
                     [def(name) EXCEPT !.decs = hook], [def(name) EXCEPT !.doc = doc]}
        js(name) == {function(name), [function(name) EXCEPT !.is_async = TRUE],
                     [function(name) EXCEPT !.doc = doc]}
    IN {SourceFile(<<"f">> \o ExtPy, TRUE, <<s>>) : s \in UNION {py(name) : name \in names}}
       \cup {SourceFile(<<"f">> \o ExtJs, TRUE, <<s>>) : s \in UNION {js(name) : name \in names}}
       \cup {SourceFile(<<"g">> \o ExtPy, TRUE,
                <<def(<<"r","u","n">>), [def(<<"g","e","t","V","a","l","i","d","a","t","e">>) EXCEPT !.decs = route],
                  def(<<"u","s","e","A","u","t","h">>)>>),
             SourceFile(<<"g">> \o ExtJs, TRUE,
                <<Stmt("arrow", <<"r","u","n">>, <<>>, <<>>),
                  [function(<<"g","e","t","V","a","l","i","d","a","t","e">>) EXCEPT !.is_async = TRUE],
                  Stmt("funcexpr", <<"r","u","n">>, <<>>, <<>>),
                  Stmt("generator", <<"h","a","n","d","l","e","L","o","g","i","n">>, <<>>, <<>>),
                  Stmt("route", <<"a","p","p">>, <<"g","e","t">>, <<"/","x">>)>>),
             SourceFile(<<"h">> \o ExtTsx, TRUE,
                <<function(<<"A","p","p">>), function(<<"r","u","n">>),
                  Stmt("route", <<"a","p","p">>, <<"g","e","t">>, <<"/","x">>)>>),
             SourceFile(<<"h">> \o ExtPy, TRUE, <<Stmt("pass", <<>>, <<>>, <<>>)>>),
             SourceFile(<<"h">> \o ExtGo, TRUE, <<Stmt("pass", <<>>, <<>>, <<>>)>>)}

\* the file lists of at most MaxFuncFiles of these files, with distinct paths
FuncFileLists ==
    {<<>>} \cup {<<f>> : f \in FuncFiles}
      \cup (IF MaxFuncFiles < 2 THEN {}
            ELSE {q \in {<<f, g>> : f \in FuncFiles, g \in FuncFiles} : q[1].path # q[2].path})

\* ---------------------------------------------------------------- state
VARIABLES
    files,            \* repo_data["files"]: the SourceFile records of the run
    hashseed,         \* the string hash seed of the process
    inference,        \* availability of the text-generation capability
    pc,               \* position of run_analysis
    idx,              \* analyze_all_sources: index of the next file
    source_analysis,  \* the FileAnalysis records
    annotated,        \* run_analysis: number of records annotated so far
    graphs,           \* the result of build_all_graphs
    rendering,        \* what the diagram toolchain did for each graph
    buildCalls,       \* number of calls of build_all_graphs
    _inference_engine \* local_inference._inference_engine, the module-level singleton

vars == <<files, hashseed, inference, pc, idx, source_analysis, annotated, graphs, rendering, buildCalls,
          _inference_engine>>

\* build_all_graphs, lines 266-270
InitialGraphs ==
    [module_dependency |-> NoGraph, api_routes |-> NoGraph, component_graph |-> NoGraph]

NoRendering ==
    [module_dependency |-> "none", api_routes |-> "none", component_graph |-> "none"]

\* whether the toolchain produced the image, recorded when the builder called it
Rendered(result, outcome) ==
    IF result.rendered = 0 THEN "none" ELSE IF outcome = "ok" THEN "ok" ELSE "failed"

InitWith(fileLists, modes) ==
    /\ files \in fileLists
    /\ hashseed \in HashSeeds
    /\ inference \in modes
    /\ pc = "fetch"
    /\ idx = 1
    /\ source_analysis = <<>>
    /\ annotated = 0
    /\ graphs = InitialGraphs
    /\ rendering = NoRendering
    /\ buildCalls = 0
    /\ _inference_engine = "None"

Init == InitWith(FileLists, InferenceModes)

InitCap == InitWith(CapFileLists, {"no_model"})

InitMods == InitWith(ModFileLists, {"no_model"})

\* run_analysis step 1: fetch_repository returns the files
FetchOk ==
    /\ pc = "fetch"
    /\ pc' = "parse"
    /\ UNCHANGED <<files, hashseed, inference, idx, source_analysis, annotated, graphs, rendering, buildCalls, _inference_engine>>

\* run_analysis step 1: fetch_repository raises and the run ends
FetchFail ==
    /\ pc = "fetch"
    /\ pc' = "failed"
    /\ UNCHANGED <<files, hashseed, inference, idx, source_analysis, annotated, graphs, rendering, buildCalls, _inference_engine>>

\* analyze_all_sources: one iteration of the loop over files
ParseStep ==
    /\ pc = "parse"
    /\ idx <= Len(files)
    /\ source_analysis' = source_analysis \o AnalyzeOne(files[idx], hashseed)
    /\ idx' = idx + 1
    /\ UNCHANGED <<files, hashseed, inference, pc, annotated, graphs, rendering, buildCalls, _inference_engine>>

\* ParseDone when the loop over files may be left before the last file
ParseDone_Early ==
    /\ pc = "parse"
    /\ pc' = "annotate"
    /\ UNCHANGED <<files, hashseed, inference, idx, source_analysis, annotated, graphs, rendering, buildCalls, _inference_engine>>

\* analyze_all_sources returns
ParseDone ==
    /\ pc = "parse"
    /\ idx > Len(files)
    /\ pc' = "annotate"
    /\ UNCHANGED <<files, hashseed, inference, idx, source_analysis, annotated, graphs, rendering, buildCalls, _inference_engine>>

\* run_analysis step 3.5: one iteration of the annotation loop
AnnotateStep ==
    /\ pc = "annotate"
    /\ annotated < Len(source_analysis)
    /\ LET a == source_analysis[annotated + 1]
       IN \E outcomes \in [1..Len(a.functions) -> CallOutcomes(inference)] :
             source_analysis' = [source_analysis EXCEPT
                 ![annotated + 1] = AnnotateOne(a, hashseed, inference, outcomes)]
    /\ annotated' = annotated + 1
    /\ _inference_engine' = get_inference_engine(_inference_engine, inference,
                                                source_analysis[annotated + 1].functions)
    /\ UNCHANGED <<files, hashseed, inference, pc, idx, graphs, rendering, buildCalls>>

\* run_analysis step 4: the annotation loop is over, parse_all_configs runs
ParseConfigs ==
    /\ pc = "annotate"
    /\ annotated >= Len(source_analysis)
    /\ pc' = "graph_module"
    /\ UNCHANGED <<files, hashseed, inference, idx, source_analysis, annotated, graphs, rendering, buildCalls, _inference_engine>>

\* build_all_graphs, lines 266-276
BuildModuleGraph ==
    /\ pc = "graph_module"
    /\ \E outcome \in RenderOutcomes :
          LET result == build_module_dependency_graph(source_analysis, hashseed, outcome)
          IN /\ graphs' = [InitialGraphs EXCEPT !.module_dependency = TryBuild(result)]
             /\ rendering' = [NoRendering EXCEPT !.module_dependency = Rendered(result, outcome)]
    /\ buildCalls' = buildCalls + 1
    /\ pc' = "graph_routes"
    /\ UNCHANGED <<files, hashseed, inference, idx, source_analysis, annotated, _inference_engine>>

\* build_all_graphs, lines 278-282
BuildRouteGraph ==
    /\ pc = "graph_routes"
    /\ \E outcome \in RenderOutcomes :
          LET result == build_route_flow_graph(source_analysis, outcome)
          IN /\ graphs' = [graphs EXCEPT !.api_routes = TryBuild(result)]
             /\ rendering' = [rendering EXCEPT !.api_routes = Rendered(result, outcome)]
    /\ pc' = "graph_components"
    /\ UNCHANGED <<files, hashseed, inference, idx, source_analysis, annotated, buildCalls, _inference_engine>>

\* BuildComponentGraph with a builder that consumes the import lists it reads
BuildComponentGraph_Consuming ==
    /\ pc = "graph_components"
    /\ \E outcome \in RenderOutcomes :
          LET result == build_component_graph(source_analysis, hashseed, outcome)
          IN /\ graphs' = [graphs EXCEPT !.component_graph = TryBuild(result)]
             /\ rendering' = [rendering EXCEPT !.component_graph = Rendered(result, outcome)]
    /\ source_analysis' = Tuple([n \in 1..Len(source_analysis) |->
                               [source_analysis[n] EXCEPT !.imports = <<>>]])
    /\ pc' = "done"
    /\ UNCHANGED <<files, hashseed, inference, idx, annotated, buildCalls, _inference_engine>>

\* build_all_graphs, lines 284-290
BuildComponentGraph ==
    /\ pc = "graph_components"
    /\ \E outcome \in RenderOutcomes :
          LET result == build_component_graph(source_analysis, hashseed, outcome)
          IN /\ graphs' = [graphs EXCEPT !.component_graph = TryBuild(result)]
             /\ rendering' = [rendering EXCEPT !.component_graph = Rendered(result, outcome)]
    /\ pc' = "done"
    /\ UNCHANGED <<files, hashseed, inference, idx, source_analysis, annotated, buildCalls, _inference_engine>>

Next ==
    \/ FetchOk
    \/ FetchFail
    \/ ParseStep
    \/ ParseDone
    \/ AnnotateStep
    \/ ParseConfigs
    \/ BuildModuleGraph
    \/ BuildRouteGraph
    \/ BuildComponentGraph

Spec == Init /\ [][Next]_vars

SpecCap == InitCap /\ [][Next]_vars

SpecMods == InitMods /\ [][Next]_vars

SpecFuncs == InitWith(FuncFileLists, InferenceModes) /\ [][Next]_vars

\* =================================================================== claims
GraphNames == {"module_dependency", "api_routes", "component_graph"}

\* the graphs build_all_graphs has already computed
BuiltGraphs ==
    (IF pc \in {"graph_routes", "graph_components", "done"} THEN {"module_dependency"} ELSE {})
    \cup (IF pc \in {"graph_components", "done"} THEN {"api_routes"} ELSE {})
    \cup (IF pc = "done" THEN {"component_graph"} ELSE {})

Keys(g) == Range(graphs[g].adjacency.keys)

Successors(g) == UNION {Range(graphs[g].adjacency.succ[k]) : k \in 1..Len(graphs[g].adjacency.succ)}

\* content absent (None) or the empty string
NoContent(f) == ~f.present \/ f.stmts = <<>>

RecordPaths == {source_analysis[n].file_path : n \in 1..Len(source_analysis)}

RecordModules == {_path_to_module(q) : q \in RecordPaths}

\* C1: in the module graph and in the component graph no node is listed among
\* its own successors.
C1_NoSelfEdges ==
    \A g \in {"module_dependency", "component_graph"} :
        \A k \in 1..Len(graphs[g].adjacency.keys) :
            graphs[g].adjacency.keys[k] \notin Range(graphs[g].adjacency.succ[k])

\* a record has an import whose first matching module is the record's own
\* module, and a component file imports a path named like its own component
C1_Witness ==
    /\ pc = "done"
    /\ \E k \in 1..Len(source_analysis) :
          LET a == source_analysis[k]
              module_names == graphs.module_dependency.adjacency.keys
          IN \E n \in 1..Len(a.imports) :
                LET hits == ImportHits(a.imports[n], module_names)
                IN /\ hits # {}
                   /\ module_names[CHOOSE m \in hits : \A j \in hits : m <= j]
                         = _path_to_module(a.file_path)
    /\ \E k \in 1..Len(source_analysis) :
          LET a == source_analysis[k]
          IN \E c \in Range(a.components) : \E n \in 1..Len(a.imports) :
                Lower(c) = Lower(SplitLast(a.imports[n], "/"))
    /\ Successors("module_dependency") # {}

\* C2: the adjacency maps are not truncated to the rendering caps: every
\* record's module and every component is a key, and the gateway has one
\* successor entry per discovered route.
C2_AdjacencyNotCapped ==
    pc = "done" =>
        /\ RecordModules \subseteq Keys("module_dependency")
        /\ UNION {Range(source_analysis[n].components) : n \in 1..Len(source_analysis)}
              \subseteq Keys("component_graph")
        /\ AllRoutes(source_analysis) # <<>> =>
              Len(AdjGet(graphs.api_routes.adjacency, API_Gateway))
                  = Len(AllRoutes(source_analysis))

\* C3: no successor list of the three adjacency maps holds an entry twice.
C3_NoDuplicateSuccessors ==
    \A g \in GraphNames :
        \A k \in 1..Len(graphs[g].adjacency.succ) : NoDuplicates(graphs[g].adjacency.succ[k])

\* C4: the keys of each adjacency map are exactly the nodes of the graph, and
\* every successor is a node.
C4_KeysAreNodes ==
    \A g \in GraphNames :
        /\ Keys(g) = graphs[g].nodes
        /\ Successors(g) \subseteq graphs[g].nodes

\* the name under which the adjacency map knows a node of the diagram: the
\* route graph lists labels, the other two graphs list node ids
AdjName(g, id) ==
    IF g = "api_routes" /\ id # API_Gateway
    THEN (CHOOSE n \in graphs[g].dot.nodes : n.id = id).label
    ELSE id

\* C5: every node and every edge of the diagram of a graph is a node and an
\* edge of the adjacency map of that graph.
C5_RenderedSubset ==
    \A g \in GraphNames :
        /\ \A n \in graphs[g].dot.nodes :
              AdjName(g, n.id) \in Keys(g) \cup Successors(g)
        /\ \A e \in graphs[g].dot.edges :
              /\ AdjName(g, e[1]) \in Keys(g)
              /\ AdjName(g, e[2]) \in Range(AdjGet(graphs[g].adjacency, AdjName(g, e[1])))

\* C6: build_all_graphs is called at most once, only after the loop over the
\* files and the annotation loop are over, on the records of all files; a
\* run that reaches its end has called it exactly once.
C6_GraphsAfterExtraction ==
    /\ buildCalls <= 1
    /\ buildCalls > 0 =>
          /\ idx > Len(files)
          /\ annotated = Len(source_analysis)
    /\ pc \in {"fetch", "parse", "annotate", "failed"} => buildCalls = 0
    /\ pc = "done" => buildCalls = 1

C6_Witness ==
    /\ pc = "done"
    /\ Len(source_analysis) >= 2
    /\ \E n \in 1..Len(source_analysis) : source_analysis[n].functions # <<>>

\* what the builder of g returns when rendering succeeds
OkBuild(g) ==
    IF g = "module_dependency" THEN build_module_dependency_graph(source_analysis, hashseed, "ok")
    ELSE IF g = "api_routes" THEN build_route_flow_graph(source_analysis, "ok")
    ELSE build_component_graph(source_analysis, hashseed, "ok")

\* C7: whatever the renderer does, the result has its three entries, every
\* graph built has the adjacency it has when rendering succeeds, a graph whose
\* rendering failed has no image, one whose rendering succeeded has its image,
\* and the renderer is called at most once per graph.
C7_RenderFailureKeepsAdjacency ==
    /\ DOMAIN graphs = GraphNames
    /\ \A g \in BuiltGraphs :
          /\ graphs[g].adjacency = OkBuild(g).adjacency
          /\ graphs[g].rendered <= 1
          /\ rendering[g] = "failed" => graphs[g].png = "None"
          /\ rendering[g] = "ok" => graphs[g].png = OkBuild(g).png /\ graphs[g].png # "None"

\* rendering failed for the module graph, which has edges, and succeeded for
\* the route graph, which has routes
C7_Witness ==
    /\ pc = "done"
    /\ rendering.module_dependency = "failed"
    /\ graphs.module_dependency.png = "None"
    /\ Successors("module_dependency") # {}
    /\ rendering.api_routes = "ok"
    /\ Successors("api_routes") # {}

\* C8: a file whose content is absent or empty has no record, and every node
\* of the three graphs comes from a record.
C8_NoContentNoRecord ==
    /\ \A k \in 1..Len(files) : NoContent(files[k]) => files[k].path \notin RecordPaths
    /\ Keys("module_dependency") \subseteq RecordModules
    /\ Keys("component_graph")
          \subseteq UNION {Range(source_analysis[n].components) : n \in 1..Len(source_analysis)}
    /\ Successors("module_dependency") \subseteq RecordModules
    /\ Successors("component_graph")
          \subseteq UNION {Range(source_analysis[n].components) : n \in 1..Len(source_analysis)}
    /\ (pc = "annotate" /\ annotated = 0) =>
          source_analysis
              = analyze_all_sources(SelectSeq(files, LAMBDA f : ~NoContent(f)), hashseed)
    /\ Successors("api_routes")
          \subseteq {RouteLabel(r.route) : r \in Range(AllRoutes(source_analysis))}

\* a file without content next to a file that has a record
C8_Witness ==
    /\ pc = "done"
    /\ \E k \in 1..Len(files) : NoContent(files[k])
    /\ Keys("module_dependency") # {}

\* the extension analyze_all_sources computes is no source extension
Unrecognized(path) == SourceExt(path) \notin source_extensions

\* C9: for a file with an unrecognized extension parse_source_file returns no
\* analysis and analyze_all_sources appends no record; the files around it
\* are processed.
C9_UnsupportedSkipped ==
    /\ \A k \in 1..Len(files) :
          Unrecognized(files[k].path) =>
              /\ parse_source_file(files[k].path, files[k].present, files[k].stmts, hashseed).none
              /\ files[k].path \notin RecordPaths
    /\ pc \notin {"fetch", "parse", "failed"} => idx = Len(files) + 1
    /\ \A k \in 1..Len(files) :
          (/\ k < idx
           /\ ~NoContent(files[k])
           /\ \E e \in source_extensions : EndsWith(files[k].path, e))
          => files[k].path \in RecordPaths

\* a file with an unrecognized extension and content, followed by a file
\* that has a record
C9_Witness ==
    /\ pc = "done"
    /\ \E k \in 1..Len(files) : \E j \in (k + 1)..Len(files) :
          /\ Unrecognized(files[k].path)
          /\ ~NoContent(files[k])
          /\ files[j].path \in RecordPaths

\* a Python file with content that does not parse
Unparseable(f) == EndsWith(f.path, ExtPy) /\ ~NoContent(f) /\ SyntaxInvalid(f.stmts)

\* C10: a Python file with invalid syntax gets exactly one record, with
\* empty classes, functions, components, imports and routes, and its module
\* is a key of the module graph.
C10_SyntaxErrorEmptyRecord ==
    \A k \in 1..Len(files) :
        (k < idx /\ Unparseable(files[k])) =>
            /\ Cardinality({n \in 1..Len(source_analysis) :
                               source_analysis[n].file_path = files[k].path}) = 1
            /\ \A n \in 1..Len(source_analysis) :
                  source_analysis[n].file_path = files[k].path =>
                      /\ source_analysis[n].classes = <<>>
                      /\ source_analysis[n].functions = <<>>
                      /\ source_analysis[n].components = <<>>
                      /\ source_analysis[n].imports = <<>>
                      /\ source_analysis[n].routes = <<>>
            /\ "module_dependency" \in BuiltGraphs =>
                  _path_to_module(files[k].path) \in Keys("module_dependency")

\* the text before the syntax error declares a function
C10_Witness ==
    /\ pc = "done"
    /\ \E k \in 1..Len(files) :
          /\ Unparseable(files[k])
          /\ \E m \in 1..Len(files[k].stmts) : files[k].stmts[m].kind = "def"
          /\ _path_to_module(files[k].path) \in Keys("module_dependency")

\* the records as the extractors left them, before annotation
Extracted == analyze_all_sources(files, hashseed)

\* the function is getUser in a script-language file or get_user in a Python
\* file, without description and without decorators
IsPlainGetUser(func, language) ==
    /\ \/ Get(func, "name", <<>>) = <<"g","e","t","U","s","e","r">> /\ language \in ScriptLanguages
       \/ Get(func, "name", <<>>) = <<"g","e","t","_","u","s","e","r">> /\ language = LangPython
    /\ Strip(Get(func, "description", <<>>)) = <<>>
    /\ Get(func, "decorators", <<>>) = <<>>

\* C11: without a text-generation model, the annotated description of a
\* function getUser / get_user that had no description and no decorators is
\* exactly "Retrieves or fetches data".
C11_GetUserDescription ==
    inference \in {"not_importable", "no_model"} =>
        \A n \in 1..annotated :
            LET orig == Extracted[n]
            IN \A k \in 1..Len(orig.functions) :
                  IsPlainGetUser(orig.functions[k], Get(orig, "language", <<>>)) =>
                      Get(source_analysis[n].functions[k], "description", <<>>)
                          = <<"Retrieves or fetches data">>

\* C12: a function without description whose annotation did not get a text
\* from the generator (not importable, failed, or empty answer) has exactly
\* the description of the rule list, and all functions of the record are
\* processed.
C12_FailureFallsToRules ==
    \A n \in 1..annotated :
        LET orig == Extracted[n]
            language == Get(orig, "language", <<>>)
        IN /\ Len(source_analysis[n].functions) = Len(orig.functions)
           /\ \A k \in 1..Len(orig.functions) :
                 Strip(Get(orig.functions[k], "description", <<>>)) = <<>> =>
                     LET d == Get(source_analysis[n].functions[k], "description", <<>>)
                     IN \/ d = GeneratedText
                        \/ d = _infer_function_purpose(
                                   Get(orig.functions[k], "name", <<>>), language,
                                   Get(orig.functions[k], "decorators", <<>>))

\* one call of the builder of graph g
BuildGraph(g, analyses, h, outcome) ==
    IF g = "module_dependency" THEN build_module_dependency_graph(analyses, h, outcome)
    ELSE IF g = "api_routes" THEN build_route_flow_graph(analyses, outcome)
    ELSE build_component_graph(analyses, h, outcome)

\* the graph a step of build_all_graphs builds
GraphBuiltAt(position) ==
    IF position = "graph_module" THEN "module_dependency"
    ELSE IF position = "graph_routes" THEN "api_routes"
    ELSE "component_graph"

\* a step of build_all_graphs leaves the collection and the graphs built
\* before as they were, and a second call of its builder on the collection
\* it leaves, in the same process and whatever the renderer does, returns
\* the adjacency the first call stored
BuildStepRepeatable ==
    pc \in {"graph_module", "graph_routes", "graph_components"} =>
        /\ source_analysis' = source_analysis
        /\ \A g \in BuiltGraphs : graphs'[g].adjacency = graphs[g].adjacency
        /\ \A outcome \in RenderOutcomes :
              BuildGraph(GraphBuiltAt(pc), source_analysis', hashseed', outcome).adjacency
                  = graphs'[GraphBuiltAt(pc)].adjacency

SymbolLists(rec) ==
    <<rec.classes,
      Tuple([k \in 1..Len(rec.functions) |-> Get(rec.functions[k], "name", <<>>)]),
      rec.components, rec.routes, rec.imports>>

\* C14: the records a run extracted have the ordered symbol lists that any
\* other run (any other process, hence any hash seed) extracts from the same
\* files.
C14_ExtractionDeterministic ==
    \A h \in HashSeeds :
        LET other == analyze_all_sources(files, h)
        IN \A n \in 1..Len(source_analysis) :
              SymbolLists(source_analysis[n]) = SymbolLists(other[n])

ModuleAdj == graphs.module_dependency.adjacency

\* C15: of two files, a without imports and b whose only import is the
\* module of a, the module graph has the edge b -> a and no edge a -> b, in
\* either order of the two files.
C15_ImportEdgeEitherOrder ==
    (pc = "done" /\ Len(source_analysis) = 2) =>
        \A i, j \in 1..2 :
            LET a == source_analysis[i]
                b == source_analysis[j]
                ma == _path_to_module(a.file_path)
                mb == _path_to_module(b.file_path)
            IN (ma # mb /\ a.imports = <<>> /\ b.imports = <<ma>>) =>
                   /\ AdjGet(ModuleAdj, mb) = <<ma>>
                   /\ AdjGet(ModuleAdj, ma) = <<>>

UsersPath == <<"/","u","s","e","r","s">>

GetUsers == <<"G","E","T"," ">> \o UsersPath

PostUsers == <<"P","O","S","T"," ">> \o UsersPath

\* the route calls of a file, in text order, as pairs <<method, path>>
RouteCallsOf(f) ==
    LET at == IndicesOf(f.stmts, {"route"}, 1)
    IN Tuple([k \in 1..Len(at) |-> <<f.stmts[at[k]].arg, f.stmts[at[k]].arg2>>])

\* the file contains the calls app.get("/users", h1) and app.post("/users", h2)
\* and no other route call
IsScenarioA(f) ==
    /\ \E e \in {ExtJs, ExtTs} : EndsWith(f.path, e)
    /\ RouteCallsOf(f) = << <<<<"g","e","t">>, UsersPath>>, <<<<"p","o","s","t">>, UsersPath>> >>

\* C16: a script-language file with the calls app.get("/users", h1) and
\* app.post("/users", h2) has exactly the routes {GET, /users} and
\* {POST, /users}, and when it is the only file with routes the gateway has
\* exactly the successors "GET /users" and "POST /users"; every route of a
\* script-language record has an upper-case method and is listed by the
\* gateway as "<METHOD> <path>".
C16_ScriptRoutes ==
    /\ \A n \in 1..Len(source_analysis) :
          \A f \in {files[k] : k \in 1..Len(files)} :
              (f.path = source_analysis[n].file_path /\ IsScenarioA(f)) =>
                  /\ Len(source_analysis[n].routes) = 2
                  /\ \A k \in 1..2 : source_analysis[n].routes[k].keys = {"method", "path"}
                  /\ source_analysis[n].routes[1].method = <<"G","E","T">>
                  /\ source_analysis[n].routes[2].method = <<"P","O","S","T">>
                  /\ source_analysis[n].routes[1].path = UsersPath
                  /\ source_analysis[n].routes[2].path = UsersPath
                  /\ (/\ pc = "done"
                      /\ \A m \in 1..Len(source_analysis) :
                            m # n => source_analysis[m].routes = <<>>)
                     => AdjGet(graphs.api_routes.adjacency, API_Gateway) = <<GetUsers, PostUsers>>
    /\ \A n \in 1..Len(source_analysis) :
          source_analysis[n].language \in ScriptLanguages =>
              \A k \in 1..Len(source_analysis[n].routes) :
                  LET r == source_analysis[n].routes[k]
                  IN /\ r.method = Upper(r.method)
                     /\ r.method # <<>>
                     /\ pc = "done" =>
                           r.method \o <<" ">> \o r.path
                               \in Range(AdjGet(graphs.api_routes.adjacency, API_Gateway))

\* the run of a repository whose only routes are those of the scenario file
C16_Witness ==
    /\ pc = "done"
    /\ \E k \in 1..Len(files) : IsScenarioA(files[k])
    /\ AdjGet(graphs.api_routes.adjacency, API_Gateway) = <<GetUsers, PostUsers>>

\* C17: the records have pairwise distinct paths; the module graph has one
\* key per record, and every edge the imports of a record give is in the
\* successor list of the record's module.
C17_OneNodePerRecord ==
    (/\ pc = "done"
     /\ \A i, j \in 1..Len(source_analysis) :
           i # j => source_analysis[i].file_path # source_analysis[j].file_path)
    => /\ Len(ModuleAdj.keys) = Len(source_analysis)
       /\ Cardinality(graphs.module_dependency.nodes) = Len(source_analysis)
       /\ \A n \in 1..Len(source_analysis) :
             Range(ImportEdges(source_analysis[n], ModuleAdj.keys))
                 \subseteq Range(AdjGet(ModuleAdj, _path_to_module(source_analysis[n].file_path)))

\* the record has a component, the state hook among its recognised hooks and
\* an HTTP-client marker in its import list
IsScenarioE(rec) ==
    /\ rec.components # <<>>
    /\ <<"u","s","e","S","t","a","t","e">> \in Range(Get(rec, "react_hooks", <<>>))
    /\ \E k \in 1..Len(rec.imports) :
          \/ Contains(rec.imports[k], <<"a","x","i","o","s">>)
          \/ Contains(rec.imports[k], <<"f","e","t","c","h">>)

\* C18: the description of an annotated record with a component, the state
\* hook and an HTTP-client import mentions state management and the
\* interaction with backend APIs.
C18_ComponentDescription ==
    \A n \in 1..annotated :
        IsScenarioE(source_analysis[n]) =>
            /\ "semantic_description" \in source_analysis[n].keys
            /\ " It uses React Hooks for state management."
                  \in Range(source_analysis[n].semantic_description)
            /\ " It interacts with backend APIs using HTTP requests."
                  \in Range(source_analysis[n].semantic_description)

C18_Witness ==
    \E n \in 1..annotated :
        /\ IsScenarioE(source_analysis[n])
        /\ " It uses React Hooks for state management."
              \in Range(source_analysis[n].semantic_description)
        /\ " It interacts with backend APIs using HTTP requests."
              \in Range(source_analysis[n].semantic_description)

\* a step that extracts or annotates a file changes no record of another
\* file and writes no module-level variable
FileStepIsolated ==
    pc \in {"parse", "annotate"} =>
        /\ \A n \in 1..Len(source_analysis) :
              (pc = "parse" \/ n # annotated + 1) => source_analysis'[n] = source_analysis[n]
        /\ _inference_engine' = _inference_engine

\* C19: extraction and annotation of a file read and write no state shared
\* between files: the records of the other files are untouched and no
\* module-level variable is written.
C19_NoSharedState == [][FileStepIsolated]_vars

\* the edge the claim gives one import token of module source_module: to the
\* first matching module other than source_module, if there is one
FirstOtherMatch(imp, source_module, module_names) ==
    LET hits == {k \in ImportHits(imp, module_names) : module_names[k] # source_module}
    IN IF hits = {} THEN <<>>
       ELSE <<module_names[CHOOSE m \in hits : \A n \in hits : m <= n]>>

\* C20: every import token of a file adds exactly one edge, to the first
\* other file whose module matches the token, and none if no other file
\* matches; a match of the file's own module does not prevent the edge.
C20_FirstOtherMatchEdge ==
    (/\ pc = "done"
     /\ Len(ModuleAdj.keys) = Len(source_analysis))
    => \A n \in 1..Len(source_analysis) :
          LET b == source_analysis[n]
              mb == _path_to_module(b.file_path)
          IN AdjGet(ModuleAdj, mb)
                = Flatten([k \in 1..Len(b.imports) |->
                              FirstOtherMatch(b.imports[k], mb, ModuleAdj.keys)])

\* The name rules of the per-function description in the order in which the
\* specification lists them: a rule holds prefixes or substrings of the
\* lower-cased name; text is its description (rules 1, 6 and 7 name the
\* rest of the function name instead, see RuleText).
NameRules == <<
    [prefix |-> TRUE , pats |-> {<<"u","s","e">>},
     text |-> <<>>],
    [prefix |-> TRUE , pats |-> {<<"g","e","t">>, <<"f","e","t","c","h">>},
     text |-> <<"Retrieves or fetches data">>],
    [prefix |-> TRUE , pats |-> {<<"c","r","e","a","t","e">>, <<"a","d","d">>},
     text |-> <<"Creates or adds new data">>],
    [prefix |-> TRUE , pats |-> {<<"u","p","d","a","t","e">>, <<"e","d","i","t">>},
     text |-> <<"Updates or modifies existing data">>],
    [prefix |-> TRUE , pats |-> {<<"d","e","l","e","t","e">>, <<"r","e","m","o","v","e">>},
     text |-> <<"Deletes or removes data">>],
    [prefix |-> TRUE , pats |-> {<<"h","a","n","d","l","e">>},
     text |-> <<>>],
    [prefix |-> TRUE , pats |-> {<<"o","n">>},
     text |-> <<>>],
    [prefix |-> FALSE, pats |-> {<<"v","a","l","i","d","a","t","e">>},
     text |-> <<"Validates data or input">>],
    [prefix |-> FALSE, pats |-> {<<"p","r","o","c","e","s","s">>, <<"p","a","r","s","e">>},
     text |-> <<"Processes or transforms data">>],
    [prefix |-> FALSE, pats |-> {<<"r","e","n","d","e","r">>},
     text |-> <<"Renders UI component or view">>],
    [prefix |-> FALSE, pats |-> {<<"i","n","i","t">>, <<"s","e","t","u","p">>},
     text |-> <<"Initializes or sets up the application or module">>],
    [prefix |-> FALSE, pats |-> {<<"l","o","g","i","n">>, <<"a","u","t","h">>},
     text |-> <<"Handles authentication or authorization">>],
    [prefix |-> FALSE, pats |-> {<<"l","o","g","o","u","t">>},
     text |-> <<"Handles user logout">>],
    [prefix |-> FALSE, pats |-> {<<"a","p","i">>, <<"r","e","q","u","e","s","t">>},
     text |-> <<"Makes API request or handles network communication">>],
    [prefix |-> FALSE, pats |-> {<<"s","a","v","e">>, <<"s","t","o","r","e">>},
     text |-> <<"Saves or stores data">>],
    [prefix |-> FALSE, pats |-> {<<"l","o","a","d">>},
     text |-> <<"Loads data from storage">>],
    [prefix |-> FALSE, pats |-> {<<"f","o","r","m","a","t">>, <<"t","r","a","n","s","f","o","r","m">>},
     text |-> <<"Formats or transforms data">>],
    [prefix |-> FALSE, pats |-> {<<"c","o","n","v","e","r","t">>},
     text |-> <<"Converts data from one format to another">>],
    [prefix |-> FALSE, pats |-> {<<"c","a","l","c","u","l","a","t","e">>, <<"c","o","m","p","u","t","e">>},
     text |-> <<"Performs calculations or computations">>],
    [prefix |-> FALSE, pats |-> {<<"s","e","a","r","c","h">>, <<"f","i","n","d">>},
     text |-> <<"Searches or finds specific data">>],
    [prefix |-> FALSE, pats |-> {<<"f","i","l","t","e","r">>},
     text |-> <<"Filters data based on criteria">>]
>>

\* the description rule i gives a function of that name
RuleText(i, name) ==
    IF i = 1 THEN <<"Custom React hook for managing ">> \o Drop(name, 3) \o <<" state or behavior">>
    ELSE IF i = 6 THEN <<"Handles ">> \o Drop(name, 6) \o <<" event or action">>
    ELSE IF i = 7 THEN <<"Event handler for ">> \o Drop(name, 2)
    ELSE NameRules[i].text

\* the rules that match a name, letter case ignored; rule 1 is a rule of
\* the script languages only
MatchingRules(name, language) ==
    {i \in 1..Len(NameRules) :
        /\ i = 1 => language \in ScriptLanguages
        /\ \E p \in NameRules[i].pats :
              IF NameRules[i].prefix THEN StartsWith(Lower(name), p)
              ELSE Contains(Lower(name), p)}

FirstRule(name, language) ==
    CHOOSE i \in MatchingRules(name, language) : \A j \in MatchingRules(name, language) : i <= j

GenericSentences == {<<"JavaScript/TypeScript utility function">>, <<"Python helper function">>}

\* a decorator string holds one of the dotted route-method markers
HasRouteMarker(decorators) ==
    \E k \in 1..Len(decorators) : \E m \in RouteMarkers : Contains(Lower(decorators[k]), m)

\* the functions the rule list describes: function k of record n had no
\* description when it was extracted, record n is annotated, and the
\* text-generation module is not importable
RuleDescribed ==
    IF pc = "annotate" /\ inference = "not_importable"
    THEN {q \in UNION {{<<n, k>> : k \in 1..Len(source_analysis[n].functions)} : n \in 1..annotated} :
             /\ Len(Extracted) = Len(source_analysis)
             /\ Strip(Get(Extracted[q[1]].functions[q[2]], "description", <<>>)) = <<>>}
    ELSE {}

FuncAt(q) == source_analysis[q[1]].functions[q[2]]

\* the prefix "use" of the name, if it has one, is in lower case
LowerUsePrefix(name) ==
    StartsWith(Lower(name), <<"u","s","e">>) => StartsWith(name, <<"u","s","e">>)

C22_UsePrefixAnyCase ==
    \A q \in RuleDescribed :
        (/\ source_analysis[q[1]].language \in ScriptLanguages
         /\ StartsWith(Lower(FuncAt(q).name), <<"u","s","e">>))
        => Get(FuncAt(q), "description", <<>>) = RuleText(1, FuncAt(q).name)

\* the extractor emitted a route for the function of that name
HasRoute(rec, name) ==
    \E r \in 1..Len(rec.routes) : Get(rec.routes[r], "function", <<>>) = name

\* C23: a function the rule list describes and whose name matches no name
\* rule is described as an endpoint handler exactly if one of its decorator
\* strings holds a dotted route-method marker, that is, for a function of a
\* Python file, exactly if the extractor emitted a route for it.
C23_EndpointHandlerIffRoute ==
    \A q \in RuleDescribed :
        LET func == FuncAt(q)
            rec == source_analysis[q[1]]
            handler == Get(func, "description", <<>>) = <<"API endpoint handler function">>
        IN MatchingRules(func.name, rec.language) = {}
             => /\ handler <=> HasRouteMarker(Get(func, "decorators", <<>>))
                /\ rec.language = LangPython => (handler <=> HasRoute(rec, func.name))

\* a function record without its description
WithoutDescription(func) ==
    [func EXCEPT !.description = <<>>, !.keys = @ \ {"description"}]

\* the annotation of one record keeps its function list but for the
\* descriptions that were missing
EnhanceFrame ==
    (pc = "annotate" /\ annotated' = annotated + 1) =>
        LET old == source_analysis[annotated + 1].functions
            new == source_analysis'[annotated + 1].functions
        IN /\ Len(new) = Len(old)
           /\ \A k \in 1..Len(old) :
                 /\ Strip(Get(old[k], "description", <<>>)) # <<>> => new[k] = old[k]
                 /\ WithoutDescription(new[k]) = WithoutDescription(old[k])

\* C24: enhance_function_descriptions leaves every function with a
\* non-blank description unchanged, adds, removes and reorders no function
\* and changes no field but the description.
C24_EnhanceOnlyUndescribed == [][EnhanceFrame]_vars

C24_Witness ==
    /\ pc = "annotate"
    /\ \E n \in 1..annotated : \E k \in 1..Len(source_analysis[n].functions) :
          /\ source_analysis[n].functions[k].description = <<"D","o","c",".">>
          /\ Len(Extracted) = Len(source_analysis)
          /\ Extracted[n].functions[k].description = <<"D","o","c",".">>

\* The sentence openings of generate_description
FunctionHeads == {"This backend function '", "This asynchronous backend function '",
                  "This Python function '"}

RouteHeads == {"This file defines API endpoints using Express routing with ",
               "This module defines "}

ComponentHead == "This React functional component named '"

GenericTails == {" module contains utility functions and helper methods.",
                 "This Python module provides core functionality for the application.",
                 " file contains application logic."}

\* the positions of a description at which one of the texts stands
Positions(description, texts) == {i \in 1..Len(description) : description[i] \in texts}

\* the description a file of functions gets: heads are the openings of its
\* function sentences, summary the opening of its route summary
FunctionTemplate(rec, d, heads, summary) ==
    /\ Positions(d, FunctionHeads) = Positions(d, heads)
    /\ 1 \in Positions(d, heads)
    /\ Cardinality(Positions(d, heads)) = Min(2, Len(rec.functions))
    /\ Positions(d, RouteHeads) \subseteq Positions(d, {summary})
    /\ Cardinality(Positions(d, {summary})) = (IF rec.routes # <<>> THEN 1 ELSE 0)
    /\ \A i \in Positions(d, heads), j \in Positions(d, {summary}) : i < j
    /\ Positions(d, {ComponentHead} \cup GenericTails) = {}

\* C25: the file description follows exactly one of four rules, by priority:
\* the component template naming the first component, alone, for a file
\* with a component; else the script template for a script file with
\* functions; else the Python template for a Python file with functions;
\* else the generic sentence naming the language. A function template holds
\* at most 2 function sentences, and the route summary comes after them.
C25_OneFileRule ==
    \A n \in 1..annotated :
        LET rec == source_analysis[n]
            d == Get(rec, "semantic_description", <<>>)
        IN IF rec.components # <<>>
           THEN /\ Take(d, Len(rec.components[1]) + 2)
                     = <<ComponentHead>> \o rec.components[1]
                         \o <<"' is responsible for rendering UI for the related feature.">>
                /\ Positions(d, FunctionHeads \cup RouteHeads \cup GenericTails) = {}
           ELSE IF rec.language \in ScriptLanguages /\ rec.functions # <<>>
           THEN FunctionTemplate(rec, d, {"This backend function '",
                                          "This asynchronous backend function '"},
                                 "This file defines API endpoints using Express routing with ")
           ELSE IF rec.language = LangPython /\ rec.functions # <<>>
           THEN FunctionTemplate(rec, d, {"This Python function '"}, "This module defines ")
           ELSE /\ Positions(d, FunctionHeads \cup RouteHeads \cup {ComponentHead}) = {}
                /\ Cardinality(Positions(d, GenericTails)) = 1
                /\ rec.language = LangPython \/ Take(d, 2) = <<"This ">> \o rec.language

\* a component file that also has functions and routes has been described
C25_Witness ==
    \E n \in 1..annotated :
        /\ source_analysis[n].components # <<>>
        /\ source_analysis[n].functions # <<>>
        /\ source_analysis[n].routes # <<>>
        /\ Get(source_analysis[n], "semantic_description", <<>>)[1] = ComponentHead

\* the source of the file declares a function of that name with "async"
DeclaredAsync(file_path, name) ==
    \E f \in Range(files) :
        /\ f.path = file_path
        /\ \E s \in Range(f.stmts) :
              s.kind \in {"function", "arrow", "funcexpr"} /\ s.name = name /\ s.is_async

\* C26: in the description of a script-language file without components,
\* each of the first two functions is described by the asynchronous sentence
\* if the source declares it async and by the plain sentence otherwise.
C26_AsyncTagged ==
    \A n \in 1..annotated :
        LET rec == source_analysis[n]
            d == Get(rec, "semantic_description", <<>>)
        IN (rec.language \in ScriptLanguages /\ rec.components = <<>>)
           => \A k \in 1..Min(2, Len(rec.functions)) :
                 LET name == rec.functions[k].name
                 IN Contains(d,
                       IF DeclaredAsync(rec.file_path, name)
                       THEN <<"This asynchronous backend function '">> \o name
                              \o <<"' likely handles business logic or request processing.">>
                       ELSE <<"This backend function '">> \o name
                              \o <<"' handles specific application logic.">>)

\* the dotted name of a name or attribute expression, called or not
DottedName(expr) == Join(expr.parts, Dot)

\* C27: a class record of the grammar-based extractor lists every base and
\* every decorator of the class as its dotted name ("pkg.Base"), the form
\* used for function decorators, and never as a dump of the syntax tree.
C27_ClassNamesFlattened ==
    \A n \in 1..Len(source_analysis) : \A f \in Range(files) :
        (source_analysis[n].language = LangPython /\ f.path = source_analysis[n].file_path)
        => \A c \in Range(source_analysis[n].classes) :
              LET s == f.stmts[c.line]
              IN /\ c.bases = [k \in 1..Len(s.bases) |-> DottedName(s.bases[k])]
                 /\ c.decorators = [k \in 1..Len(s.decs) |-> DottedName(s.decs[k])]

\* the statements of a file that function pattern p matches with that name
PatternMatches(f, p, name) ==
    {i \in 1..Len(f.stmts) : f.stmts[i].kind \in FuncPatterns[p] /\ f.stmts[i].name = name}

\* the earliest pattern that matches the name, and the place of its first match
FirstMatch(f, name) ==
    LET ps == {p \in 1..Len(FuncPatterns) : PatternMatches(f, p, name) # {}}
        p1 == CHOOSE p \in ps : \A r \in ps : p <= r
        at == PatternMatches(f, p1, name)
    IN <<p1, CHOOSE i \in at : \A j \in at : i <= j>>

\* C28: the function list of a file of the lexical extractor holds every
\* name the function patterns match once, ordered by the earliest pattern
\* that matches the name and, within a pattern, by the place of the match.
C28_FirstPatternWins ==
    \A n \in 1..Len(source_analysis) : \A f \in Range(files) :
        (source_analysis[n].language \in ScriptLanguages /\ f.path = source_analysis[n].file_path)
        => LET names == [k \in 1..Len(source_analysis[n].functions) |->
                            source_analysis[n].functions[k].name]
           IN /\ NoDuplicates(names)
              /\ Range(names) = {f.stmts[i].name : i \in
                                   {i \in 1..Len(f.stmts) : \E p \in 1..Len(FuncPatterns) :
                                        f.stmts[i].kind \in FuncPatterns[p]}}
              /\ \A i, j \in 1..Len(names) :
                    i < j => LET a == FirstMatch(f, names[i])
                                 b == FirstMatch(f, names[j])
                             IN a[1] < b[1] \/ (a[1] = b[1] /\ a[2] < b[2])

\* a file in which two patterns match one name and a later statement is
\* matched by an earlier pattern has been extracted
C28_Witness ==
    \E n \in 1..Len(source_analysis) :
        /\ source_analysis[n].language \in ScriptLanguages
        /\ Len(source_analysis[n].functions) = 3
        /\ source_analysis[n].functions[1].name = <<"g","e","t","V","a","l","i","d","a","t","e">>
        /\ source_analysis[n].functions[2].name = <<"r","u","n">>
        /\ \E f \in Range(files) :
              /\ f.path = source_analysis[n].file_path
              /\ Cardinality({i \in 1..Len(f.stmts) : f.stmts[i].name = <<"r","u","n">>}) = 2
              /\ f.stmts[1].name = <<"r","u","n">>

\* the extension of the file, letter case ignored, is a source extension and
\* its content is not empty
IsSourceInput(f) ==
    /\ HasChar(SplitLast(f.path, "/"), ".")
    /\ Dot \o Lower(SplitLast(f.path, ".")) \in source_extensions
    /\ f.present /\ f.stmts # <<>>

\* C29: analyze_all_sources returns one record for every file with a
\* recognized extension (letter case ignored) and non-empty content, in the
\* order of the input, and none for another file: the paths of the records
\* are the paths of those files.
C29_OneRecordPerSourceFile ==
    (pc = "annotate" /\ annotated = 0)
    => [n \in 1..Len(source_analysis) |-> source_analysis[n].file_path]
          = LET kept == SelectSeq(files, IsSourceInput)
            IN [n \in 1..Len(kept) |-> kept[n].path]

\* an import token of a record of module b names module a: its base is not
\* empty and is the last component of a or occurs in a
NamedBy(a, b) ==
    \E n \in 1..Len(source_analysis) :
        /\ _path_to_module(source_analysis[n].file_path) = b
        /\ \E imp \in Range(Get(source_analysis[n], "imports", <<>>)) :
              /\ ImportBase(imp) # <<>>
              /\ \/ ImportBase(imp) = SplitLast(a, ".")
                 \/ Contains(a, ImportBase(imp))

\* C30: every edge b -> a of the adjacency of the module graph is justified
\* by an import token of b with a non-empty base that names a; a token with
\* an empty base creates no edge.
C30_EdgesJustified ==
    pc = "done" =>
        \A k \in 1..Len(ModuleAdj.keys) :
            \A a \in Range(AdjGet(ModuleAdj, ModuleAdj.keys[k])) :
                NamedBy(a, ModuleAdj.keys[k])

====
